---- MODULE Spec2Model ----
(***************************************************************************)
(* Asynchronous refresh pipeline of the stock visualizer:                  *)
(*   - BackgroundUpdater (stockvision.py): single-flight update scheduler  *)
(*     and the staged worker _do_update;                                   *)
(*   - SurfaceManager (src/display/surface_manager.py): the one-slot       *)
(*     hand-off pending_background and the crossfade state;                *)
(*   - StockFetcher.fetch_data (src/stock/stock_fetcher.py): snapshot      *)
(*     cache with fallback;                                                *)
(*   - main.py: the thread-spawning render loop whose worker calls         *)
(*     SurfaceManager.update_background itself;                            *)
(*   - main_fixed.py: the single-threaded render loop that runs one stage  *)
(*     of the update per tick.                                             *)
(* self.lock of the BackgroundUpdater is held exactly at the positions     *)
(* named by holds_lock and by the render loop between UBAcquire and UBLock.*)
(***************************************************************************)
EXTENDS Integers, Sequences, FiniteSets, TLC

\* ------------------------------------------------------------------ bounds
\* number of refresh cycles a behaviour may start
MaxCycles == 2
\* number of clock units the wall clock may advance after start-up
TimeSpan == 2
\* number of worker threads that may exist at the same time
MaxWorkers == 2
\* largest value of fps * transition_duration explored by the crossfade runs
MaxTicks == 12
\* fps * transition_duration used by the render-loop specifications
LoopTicks == 2

\* number of images the sequential caller may queue without an apply
MaxUnread == 2

\* UPDATE_INTERVAL = config.stock['update_interval_minutes'] * 60, in clock units
UPDATE_INTERVAL == 2

\* time.time() at start-up: far beyond last_attempt = 0 plus one interval
StartTime == UPDATE_INTERVAL
MaxTime == StartTime + TimeSpan

Workers == 1..MaxWorkers
Cycles == 1..MaxCycles

\* --------------------------------------------- Python float (IEEE double)
\* A double in [0, 2) that is a multiple of 2^-60 is kept exactly as three
\* limbs <<a, b, c>> of 20 bits: value = (a * 2^40 + b * 2^20 + c) * 2^-60.
\* Every value 1.0 / n with 1 <= n <= 256 and every sum formed below is of
\* that form, so + and / are the correctly rounded (round-half-even,
\* 53-bit significand) operations of the Python float.
Limb == 1048576

FloatZero == <<0, 0, 0>>
FloatOne == <<Limb, 0, 0>>

\* number of low bits that do not fit the 53-bit significand, as 2^d
DropUnit(a) ==
    IF a >= 1048576 THEN 256
    ELSE IF a >= 524288 THEN 128
    ELSE IF a >= 262144 THEN 64
    ELSE IF a >= 131072 THEN 32
    ELSE IF a >= 65536 THEN 16
    ELSE IF a >= 32768 THEN 8
    ELSE IF a >= 16384 THEN 4
    ELSE IF a >= 8192 THEN 2
    ELSE 1

\* carry propagation of limbs that may have reached 2^20
FloatCarry(x) ==
    LET c == x[3] % Limb
        b0 == x[2] + (x[3] \div Limb)
        b == b0 % Limb
        a == x[1] + (b0 \div Limb)
    IN <<a, b, c>>

\* round-half-even of an exact value x to 53 significant bits; sticky tells
\* that the exact value lies strictly above x (a truncated quotient)
FloatRound(x, sticky) ==
    LET q == DropUnit(x[1])
        r == x[3] % q
        base == x[3] - r
        odd == ((x[3] \div q) % 2) = 1
        up == IF q = 1
              THEN sticky = 2
              ELSE \/ 2 * r > q
                   \/ 2 * r = q /\ (sticky > 0 \/ odd)
    IN FloatCarry(<<x[1], x[2], IF up THEN base + q ELSE base>>)

\* x + y
FloatAdd(x, y) ==
    FloatRound(FloatCarry(<<x[1] + y[1], x[2] + y[2], x[3] + y[3]>>), 0)

\* x < y
FloatLess(x, y) ==
    \/ x[1] < y[1]
    \/ x[1] = y[1] /\ x[2] < y[2]
    \/ x[1] = y[1] /\ x[2] = y[2] /\ x[3] < y[3]

\* min(x, y)
FloatMin(x, y) == IF FloatLess(y, x) THEN y ELSE x

\* 1.0 / n for a whole number n in 1..256: long division of 2^60 by n,
\* then rounding; sticky is 0 (exact), 1 (remainder below or at half of the
\* last place) or 2 (remainder above half of the last place)
FloatRecip(n) ==
    LET a == Limb \div n
        ra == Limb % n
        b == (ra * Limb) \div n
        rb == (ra * Limb) % n
        c == (rb * Limb) \div n
        rc == (rb * Limb) % n
        sticky == IF rc = 0 THEN 0 ELSE IF 2 * rc > n THEN 2 ELSE 1
    IN FloatRound(<<a, b, c>>, sticky)

\* the drop unit of a product whose top limb a may exceed 2^20: the least
\* power of two q with a < 2^13 * q
RECURSIVE WideDropUnit(_, _)
WideDropUnit(a, q) == IF a < 8192 * q THEN q ELSE WideDropUnit(a, 2 * q)

\* int(k * x) for a whole number k in 0..255: the exact product, rounded
\* half-even to 53 significant bits, then truncated
FloatTimesInt(k, x) ==
    LET e == FloatCarry(<<k * x[1], k * x[2], k * x[3]>>)
        q == WideDropUnit(e[1], 1)
        r == e[3] % q
        base == e[3] - r
        odd == ((e[3] \div q) % 2) = 1
        up == 2 * r > q \/ (2 * r = q /\ q > 1 /\ odd)
        y == FloatCarry(<<e[1], e[2], IF up THEN base + q ELSE base>>)
    IN y[1] \div Limb

\* ------------------------------------------------------- images, snapshots
\* A snapshot is named by the cycle whose fetch produced it; NoData is None.
NoData == 0

\* An image is named by the cycle that made it, by what it is (the
\* synthesized image, the placeholder of a swallowed synthesis failure, the
\* chart) and by the snapshot it is derived from.  form tells a PIL image
\* from a pygame surface.  NoImage is None.
NoImage == [cycle |-> 0, kind |-> "none", snap |-> 0, form |-> "none"]

Image(c, k, s) == [cycle |-> c, kind |-> k, snap |-> s, form |-> "pil"]

\* Python truthiness of an image or surface reference
Truthy(x) == x.kind # "none"

\* pygame.surfarray.make_surface(np.array(image_data).swapaxes(0, 1))
make_surface(image_data) == [image_data EXCEPT !.form = "surface"]

\* whether pygame.surfarray.make_surface returns (TRUE) or raises (FALSE):
\* it takes arrays of three colour planes only.  The synthesized image and
\* the placeholder are RGB; the chart is np.array(Image.open(buf)) of the PNG
\* matplotlib wrote, whose mode (RGB or RGBA) no code of the repository fixes
make_surface_outcomes(image_data) ==
    IF image_data.kind = "chart" THEN BOOLEAN ELSE {TRUE}

\* --------------------------------------------------------- SurfaceManager
\* a constructor starting with transition_progress = 0.0
SurfaceManagerInit_progress_zero ==
    [background_surface |-> NoImage,
     previous_background |-> NoImage,
     transition_progress |-> FloatZero,
     pending_background |-> NoImage]

\* SurfaceManager.__init__
SurfaceManagerInit ==
    [background_surface |-> NoImage,
     previous_background |-> NoImage,
     transition_progress |-> FloatOne,
     pending_background |-> NoImage]

\* queue_background_update that keeps an unread image
queue_keep_unread(s, image_data) ==
    IF s.pending_background.kind # "none"
    THEN s
    ELSE [s EXCEPT !.pending_background = image_data]

\* SurfaceManager.queue_background_update
queue_background_update(s, image_data) ==
    [s EXCEPT !.pending_background = image_data]

\* the first statement of update_background without "if self.background_surface:"
save_previous_unguarded(s) ==
    [s EXCEPT !.previous_background = s.background_surface,
              !.transition_progress = FloatZero]

\* SurfaceManager.update_background, first statement: save the previous
\* background for the transition
save_previous(s) ==
    IF Truthy(s.background_surface)
    THEN [s EXCEPT !.previous_background = s.background_surface,
                   !.transition_progress = FloatZero]
    ELSE s

\* update_background that leaves a running crossfade alone
update_background_no_restart(s, image_data) ==
    [(IF FloatLess(s.transition_progress, FloatOne)
      THEN s ELSE save_previous(s))
        EXCEPT !.background_surface = make_surface(image_data)]

\* SurfaceManager.update_background
update_background(s, image_data) ==
    [save_previous(s) EXCEPT !.background_surface = make_surface(image_data)]

\* apply_pending_updates without "self.pending_background = None"
clear_pending_skipped(s) == s

\* SurfaceManager.apply_pending_updates: self.pending_background = None
clear_pending(s) == [s EXCEPT !.pending_background = NoImage]

\* SurfaceManager.apply_pending_updates run without interruption
apply_pending_updates(s) ==
    IF Truthy(s.pending_background)
    THEN clear_pending(update_background(s, s.pending_background))
    ELSE s

\* get_display_background without min(1.0, ...)
get_display_background_unclamped(s, n) ==
    IF s.background_surface.kind = "none"
    THEN s
    ELSE IF s.previous_background.kind # "none"
            /\ FloatLess(s.transition_progress, FloatOne)
         THEN [s EXCEPT !.transition_progress = FloatAdd(@, FloatRecip(n))]
         ELSE s

\* SurfaceManager.get_display_background: the state it leaves, n being
\* config.display['fps'] * config.animation['transition_duration']
get_display_background(s, n) ==
    IF ~Truthy(s.background_surface)
    THEN s
    ELSE IF Truthy(s.previous_background)
            /\ FloatLess(s.transition_progress, FloatOne)
         THEN [s EXCEPT !.transition_progress =
                   FloatMin(FloatOne, FloatAdd(@, FloatRecip(n)))]
         ELSE s

\* SurfaceManager.get_display_background:
\* current_scaled.set_alpha(int(255 * self.transition_progress))
blend_alpha(s) == FloatTimesInt(255, s.transition_progress)

\* get_display_background blending whenever a previous background exists
returned_frame_always_blended(s) ==
    IF ~Truthy(s.background_surface)
    THEN NoImage
    ELSE IF Truthy(s.previous_background)
         THEN [cycle |-> s.background_surface.cycle, kind |-> "blend",
               snap |-> s.previous_background.cycle, form |-> "surface"]
         ELSE s.background_surface

\* SurfaceManager.get_display_background: the surface it returns when called
\* in state s.  The crossfade composite is a new surface ("blend") made of
\* previous_background and background_surface, named here by the cycles of
\* the two; otherwise the scaled background_surface
returned_frame(s) ==
    IF ~Truthy(s.background_surface)
    THEN NoImage
    ELSE IF Truthy(s.previous_background)
            /\ FloatLess(s.transition_progress, FloatOne)
         THEN [cycle |-> s.background_surface.cycle, kind |-> "blend",
               snap |-> s.previous_background.cycle, form |-> "surface"]
         ELSE s.background_surface

\* ----------------------------------------------------------- StockFetcher
\* fetch_data without the branch "if self.last_data: return self.last_data"
fetch_data_no_fallback(last, fresh) ==
    IF fresh # NoData
    THEN [result |-> fresh, last_data |-> fresh]
    ELSE [result |-> NoData, last_data |-> last]

\* fetch_data whose except branch forgets the cached snapshot
fetch_data_cache_dropped(last, fresh) ==
    IF fresh # NoData
    THEN [result |-> fresh, last_data |-> fresh]
    ELSE [result |-> last, last_data |-> NoData]

\* StockFetcher.fetch_data: fresh is the snapshot the download produced and
\* "self.last_data = result" stored, or NoData when the try block raised
\* before that statement.  (When _print_debug_info raises after it, the
\* except branch returns self.last_data, which is the fresh snapshot: the
\* same result and the same cache as a return from the try block.)
fetch_data(last, fresh) ==
    IF fresh # NoData
    THEN [result |-> fresh, last_data |-> fresh]
    ELSE IF last # NoData
         THEN [result |-> last, last_data |-> last]
         ELSE [result |-> NoData, last_data |-> last]

\* ------------------------------------------------------ BackgroundUpdater
\* should_update that waits for a stamp of an earlier start
should_update_stamped_only(t, last) ==
    last # 0 /\ t - last >= UPDATE_INTERVAL

\* BackgroundUpdater.should_update
should_update(t, last) == t - last >= UPDATE_INTERVAL

\* the test under the lock without "self.is_updating or"
update_starts_ignoring_flag(current_time, updating, last) ==
    ~((current_time - last) < UPDATE_INTERVAL)

\* BackgroundUpdater.update_background: the test made under the lock
update_starts(current_time, updating, last) ==
    ~(updating \/ (current_time - last) < UPDATE_INTERVAL)

\* _do_update without the test "if stock_data:"
after_fetch_unchecked(stock_data) == "render"

\* BackgroundUpdater._do_update: where the worker goes after the fetch
after_fetch(stock_data) == IF stock_data # NoData THEN "render" ELSE "finally"

\* BackgroundUpdater._do_update: where the worker goes after the overlay
after_overlay(enabled) == IF enabled THEN "prompt" ELSE "queue_chart"

\* BackgroundUpdater._do_update: the except branch of the synthesis block
synthesis_failed == "fallback"

\* an except branch that starts the cycle over
on_exception_retry == "fetch"

\* an exception that leaves _do_update without its finally block
on_exception_unwound == "idle"

\* BackgroundUpdater._do_update: an exception outside the synthesis block is
\* caught by the outer except, after which the finally block runs
on_exception == "finally"

\* a synthesized image that is stored and then followed by the fallback
after_publish_then_fallback(st) ==
    IF st = "queue_image" THEN "fallback" ELSE "finally"

\* BackgroundUpdater._do_update: where the worker goes after the
\* queue_background_update call of stage st: only the debug prints stand
\* between the call and the finally block
after_publish(st) == "finally"

\* self.lock held during the whole of _do_update
holds_lock_all_stages(pc) == pc # "idle"

\* BackgroundUpdater._do_update: the positions at which the worker holds
\* self.lock, the body of "with self.lock:" in the finally block
holds_lock(pc) == pc = "finally_locked"

\* a finally block that leaves the handle of the finished worker in place
finally_handle_kept(handle) == handle

\* BackgroundUpdater._do_update, finally: self.update_thread = None
finally_handle(handle) == 0

\* a start that leaves last_attempt unstamped
start_stamp_missing(current_time, last) == last

\* BackgroundUpdater.update_background: self.last_attempt = current_time
start_stamp(current_time, last) == current_time

\* K_r storing the current time
force_refresh_stamp_now(t) == t

\* pygame.K_r at time t: the value stored into last_attempt
force_refresh_stamp(t) == 0

\* a loop that goes on after running was cleared
after_tick_ignoring_quit(running) == "events"

\* main(): "while running:" tested after clock.tick; pygame.quit() follows
\* the loop
after_tick(running) == IF running THEN "events" ELSE "exited"

\* ------------------------------------------------------------------ state
VARIABLES
    now,                \* time.time()
    last_attempt,       \* BackgroundUpdater.last_attempt
    is_updating,        \* BackgroundUpdater.is_updating / main.py is_updating
    update_thread,      \* BackgroundUpdater.update_thread (0 is None)
    diffusion_enabled,  \* BackgroundUpdater.diffusion_enabled
    last_data,          \* StockFetcher.last_data
    overlay_data,       \* StockInfoOverlay.stock_data
    sm,                 \* the SurfaceManager fields
    ticks,              \* fps * transition_duration of the configuration
    rl,                 \* the render loop: position and locals
    wk,                 \* the worker threads: position and locals
    last_update_time,   \* main.py last_update_time
    cycles,             \* number of cycles started so far
    applyPub,           \* image stored in the mailbox while apply_pending_updates runs
    applyAdopted,       \* image adopted by the running apply_pending_updates
    calls,              \* get_display_background calls since progress was 0
    op,                 \* sequential caller: the last SurfaceManager call
    unread,             \* sequential caller: images queued since the last apply
    no_ai,              \* args.no_ai
    log                 \* cycles of the images published and adopted, in order

vars == <<now, last_attempt, is_updating, update_thread, diffusion_enabled,
          last_data, overlay_data, sm, ticks, rl, wk, last_update_time,
          cycles, applyPub, applyAdopted, calls, op, unread, no_ai, log>>

\* the variables only the sequential caller of the SurfaceManager writes
seqVars == <<op, unread>>

\* a worker slot without a thread; fetch, render, synth and stages record
\* what the stages of the running cycle did
IdleWorker ==
    [pc |-> "idle", cycle |-> 0, stock_data |-> NoData, chart |-> NoImage,
     image |-> NoImage, fetch |-> "none", render |-> "none", synth |-> "none",
     stages |-> {}]

\* the part of the SurfaceManager that is shown
Display(s) ==
    <<s.background_surface, s.previous_background, s.transition_progress>>

InApply == rl.pc \in {"apply_update", "apply_clear"}

\* main() has returned after pygame.quit(), or an exception has left it: the
\* interpreter exits and ends the worker threads, which are daemon threads
\* (self.update_thread.daemon = True)
Exited == rl.pc \in {"crashed", "exited"}

\* state common to every entry point, after the constructors
InitCommon ==
    /\ now = StartTime
    /\ last_attempt = 0
    /\ is_updating = FALSE
    /\ update_thread = 0
    /\ last_data = NoData
    /\ overlay_data = NoData
    /\ sm = SurfaceManagerInit
    /\ wk = [w \in Workers |-> IdleWorker]
    /\ last_update_time = 0
    /\ cycles = 0
    /\ applyPub = NoImage
    /\ applyAdopted = NoImage
    /\ calls = 0
    /\ op = [name |-> "init", flip |-> FALSE, taken |-> 0, first |-> NoImage,
             mid |-> FALSE, frame |-> NoImage]
    /\ unread = <<>>
    /\ log = [published |-> <<>>, adopted |-> <<>>]

\* stockvision.py main(), up to "Force initial update"
Init ==
    /\ InitCommon
    /\ diffusion_enabled \in BOOLEAN
    /\ no_ai \in BOOLEAN
    /\ ticks = LoopTicks
    /\ rl = [pc |-> "ub_time", current_time |-> 0, ub_ret |-> "events",
             forced |-> FALSE, running |-> TRUE]

\* the positions of the render loops right before a call of time.time()
ReadsClock ==
    rl.pc \in {"ub_time", "should_update", "m_check", "f_events", "f_check",
              "x_check"}

\* the wall clock advances; what the program sees of it are the readings of
\* time.time(), so the advance is taken right before a reading
Tick ==
    /\ now < MaxTime
    /\ ReadsClock
    /\ now' = now + 1
    /\ UNCHANGED <<seqVars, no_ai, log, last_attempt, is_updating, update_thread, diffusion_enabled,
                   last_data, overlay_data, sm, ticks, rl, wk,
                   last_update_time, cycles, applyPub,
                   applyAdopted, calls>>

\* ------------------------------------------- stockvision.py: render loop
\* BackgroundUpdater.update_background: current_time = time.time()
UBTime ==
    /\ rl.pc = "ub_time"
    /\ rl' = [rl EXCEPT !.pc = "ub_lock", !.current_time = now]
    /\ UNCHANGED <<seqVars, no_ai, log, now, last_attempt, is_updating, update_thread,
                   diffusion_enabled, last_data, overlay_data, sm, ticks, wk,
                   last_update_time, cycles, applyPub,
                   applyAdopted, calls>>

\* BackgroundUpdater.update_background: "with self.lock:" waits until no
\* worker holds the lock
UBAcquire ==
    /\ rl.pc = "ub_lock"
    /\ \A w \in Workers : ~holds_lock(wk[w].pc)
    /\ rl' = [rl EXCEPT !.pc = "ub_locked"]
    /\ UNCHANGED <<seqVars, no_ai, log, now, last_attempt, is_updating,
                   update_thread, diffusion_enabled, last_data, overlay_data,
                   sm, ticks, wk, last_update_time, cycles, applyPub,
                   applyAdopted, calls>>

\* BackgroundUpdater.update_background: the block under self.lock; the local
\* current_time ends with the call
UBLock ==
    /\ rl.pc = "ub_locked"
    /\ IF update_starts(rl.current_time, is_updating, last_attempt)
       THEN /\ cycles < MaxCycles
            /\ \E w \in Workers :
                 /\ wk[w].pc = "idle"
                 /\ \A v \in Workers : wk[v].pc = "idle" => w <= v
                 /\ wk' = [wk EXCEPT ![w] =
                             [IdleWorker EXCEPT !.pc = "fetch",
                                                !.cycle = cycles + 1]]
                 /\ update_thread' = w
            /\ is_updating' = TRUE
            /\ last_attempt' = start_stamp(rl.current_time, last_attempt)
            /\ cycles' = cycles + 1
       ELSE UNCHANGED <<wk, update_thread, is_updating, last_attempt, cycles>>
    /\ rl' = [rl EXCEPT !.pc = rl.ub_ret, !.current_time = 0]
    /\ UNCHANGED <<seqVars, no_ai, log, now, diffusion_enabled, last_data, overlay_data, sm, ticks,
                   last_update_time, applyPub, applyAdopted,
                   calls>>

\* pygame.K_r: background_updater.last_attempt = 0
KeyR ==
    /\ rl.pc = "events"
    /\ last_attempt' = force_refresh_stamp(now)
    /\ rl' = [rl EXCEPT !.forced = TRUE]
    /\ UNCHANGED <<seqVars, no_ai, log, now, is_updating, update_thread, diffusion_enabled,
                   last_data, overlay_data, sm, ticks, wk,
                   last_update_time, cycles, applyPub,
                   applyAdopted, calls>>

\* pygame.QUIT or pygame.K_ESCAPE: running = False
Quit ==
    /\ rl.pc = "events"
    /\ rl.running
    /\ rl' = [rl EXCEPT !.running = FALSE]
    /\ UNCHANGED <<seqVars, no_ai, log, now, last_attempt, is_updating,
                   update_thread, diffusion_enabled, last_data, overlay_data,
                   sm, ticks, wk, last_update_time, cycles, applyPub,
                   applyAdopted, calls>>

\* the event queue is drained
EventsDone ==
    /\ rl.pc = "events"
    /\ rl' = [rl EXCEPT !.pc = "should_update"]
    /\ UNCHANGED <<seqVars, no_ai, log, now, last_attempt, is_updating, update_thread,
                   diffusion_enabled, last_data, overlay_data, sm, ticks, wk,
                   last_update_time, cycles, applyPub,
                   applyAdopted, calls>>

\* if background_updater.should_update(): background_updater.update_background()
ShouldUpdate ==
    /\ rl.pc = "should_update"
    /\ rl' = IF should_update(now, last_attempt)
             THEN [rl EXCEPT !.pc = "ub_time", !.ub_ret = "apply"]
             ELSE [rl EXCEPT !.pc = "apply"]
    /\ UNCHANGED <<seqVars, no_ai, log, now, last_attempt, is_updating, update_thread,
                   diffusion_enabled, last_data, overlay_data, sm, ticks, wk,
                   last_update_time, cycles, applyPub,
                   applyAdopted, calls>>

\* SurfaceManager.apply_pending_updates: if self.pending_background
ApplyCheck ==
    /\ rl.pc = "apply"
    /\ rl' = [rl EXCEPT !.pc = IF Truthy(sm.pending_background)
                               THEN "apply_update" ELSE "frame"]
    /\ applyPub' = NoImage
    /\ applyAdopted' = NoImage
    /\ UNCHANGED <<seqVars, no_ai, log, now, last_attempt, is_updating, update_thread,
                   diffusion_enabled, last_data, overlay_data, sm, ticks, wk,
                   last_update_time, cycles, calls>>

\* SurfaceManager.apply_pending_updates:
\* self.update_background(self.pending_background).  No try block encloses
\* the call, here or in main(): when make_surface raises, the first statement
\* of update_background has run and the exception leaves main()
ApplyUpdate ==
    /\ rl.pc = "apply_update"
    /\ \E ok \in make_surface_outcomes(sm.pending_background) :
         IF ok
         THEN /\ sm' = update_background(sm, sm.pending_background)
              /\ applyAdopted' = sm.pending_background
              /\ log' = [log EXCEPT !.adopted =
                            Append(@, sm.pending_background.cycle)]
              /\ calls' = 0
              /\ rl' = [rl EXCEPT !.pc = "apply_clear"]
         ELSE /\ sm' = save_previous(sm)
              /\ calls' = IF Truthy(sm.background_surface) THEN 0 ELSE calls
              /\ rl' = [rl EXCEPT !.pc = "crashed"]
              /\ UNCHANGED <<applyAdopted, log>>
    /\ UNCHANGED <<seqVars, no_ai, now, last_attempt, is_updating, update_thread,
                   diffusion_enabled, last_data, overlay_data, ticks, wk,
                   last_update_time, cycles, applyPub>>

\* SurfaceManager.apply_pending_updates: self.pending_background = None
ApplyClear ==
    /\ rl.pc = "apply_clear"
    /\ sm' = clear_pending(sm)
    /\ rl' = [rl EXCEPT !.pc = "frame"]
    /\ applyPub' = NoImage
    /\ applyAdopted' = NoImage
    /\ UNCHANGED <<seqVars, no_ai, log, now, last_attempt, is_updating, update_thread,
                   diffusion_enabled, last_data, overlay_data, ticks, wk,
                   last_update_time, cycles, calls>>

\* bg_surface = surface_manager.get_display_background(), the drawing and
\* clock.tick; then "while running" is tested again, and pygame.quit() ends
\* main() when running is False
Frame ==
    /\ rl.pc = "frame"
    /\ sm' = get_display_background(sm, ticks)
    /\ calls' = IF sm'.transition_progress # sm.transition_progress
                THEN calls + 1 ELSE calls
    /\ rl' = [rl EXCEPT !.pc = after_tick(rl.running), !.forced = FALSE]
    /\ UNCHANGED <<seqVars, no_ai, log, now, last_attempt, is_updating, update_thread,
                   diffusion_enabled, last_data, overlay_data, ticks, wk,
                   last_update_time, cycles, applyPub,
                   applyAdopted>>

\* ---------------------------- stockvision.py: BackgroundUpdater._do_update
\* an image is stored into the mailbox
Publish(image_data) ==
    /\ sm' = queue_background_update(sm, image_data)
    /\ applyPub' = IF InApply THEN image_data ELSE applyPub
    /\ log' = [log EXCEPT !.published = Append(@, image_data.cycle)]

\* the worker record r after stage st, at position pc
Ran(r, st, pc) == [r EXCEPT !.stages = @ \cup {st}, !.pc = pc]

\* stock_data = self.stock_fetcher.fetch_data()
WFetch(w) ==
    /\ wk[w].pc = "fetch"
    /\ ~Exited
    /\ \E fresh \in {NoData, wk[w].cycle} :
         LET r == fetch_data(last_data, fresh)
         IN /\ last_data' = r.last_data
            /\ wk' = [wk EXCEPT ![w] =
                        Ran([@ EXCEPT
                               !.stock_data = r.result,
                               !.fetch = IF fresh # NoData THEN "fresh"
                                         ELSE IF last_data # NoData
                                              THEN "cached" ELSE "empty"],
                            "fetch", after_fetch(r.result))]
    /\ UNCHANGED <<seqVars, no_ai, log, now, last_attempt, is_updating, update_thread,
                   diffusion_enabled, overlay_data, sm, ticks, rl,
                   last_update_time, cycles, applyPub, applyAdopted, calls>>

\* chart_array = self.chart_renderer.render_chart_array(stock_data); an
\* exception leaves through the outer except to the finally block
WRender(w) ==
    /\ wk[w].pc = "render"
    /\ ~Exited
    /\ \E ok \in BOOLEAN :
         wk' = [wk EXCEPT ![w] =
                  IF ok
                  THEN Ran([@ EXCEPT
                              !.chart = Image(wk[w].cycle, "chart", wk[w].stock_data),
                              !.render = "ok"],
                           "render", "overlay")
                  ELSE Ran([@ EXCEPT !.render = "raised"],
                           "render", on_exception)]
    /\ UNCHANGED <<seqVars, no_ai, log, now, last_attempt, is_updating, update_thread,
                   diffusion_enabled, last_data, overlay_data, sm, ticks, rl,
                   last_update_time, cycles, applyPub, applyAdopted, calls>>

\* if self.stock_overlay: self.stock_overlay.update_stock_info(stock_data)
WOverlay(w) ==
    /\ wk[w].pc = "overlay"
    /\ ~Exited
    /\ overlay_data' = wk[w].stock_data
    /\ wk' = [wk EXCEPT ![w] =
                Ran(@, "overlay", after_overlay(diffusion_enabled))]
    /\ UNCHANGED <<seqVars, no_ai, log, now, last_attempt, is_updating, update_thread,
                   diffusion_enabled, last_data, sm, ticks, rl,
                   last_update_time, cycles, applyPub, applyAdopted, calls>>

\* chart_image = Image.fromarray(chart_array);
\* prompt = self.prompt_generator.generate_prompt(stock_data)
WPrompt(w) ==
    /\ wk[w].pc = "prompt"
    /\ ~Exited
    /\ \E ok \in BOOLEAN :
         wk' = [wk EXCEPT ![w] =
                  IF ok
                  THEN Ran(@, "prompt", "generate")
                  ELSE Ran([@ EXCEPT !.synth = "raised"],
                           "prompt", synthesis_failed)]
    /\ UNCHANGED <<seqVars, no_ai, log, now, last_attempt, is_updating, update_thread,
                   diffusion_enabled, last_data, overlay_data, sm, ticks, rl,
                   last_update_time, cycles, applyPub, applyAdopted, calls>>

\* image, seed = self.diffusion_pipeline.generate(chart_image, prompt):
\* SimplifiedDiffusionPipeline.generate returns the generated image, or
\* swallows the failure of the pipeline call and returns the placeholder
\* Image.new('RGB', ...), or raises RuntimeError when self.pipe is None
WGenerate(w) ==
    /\ wk[w].pc = "generate"
    /\ ~Exited
    /\ \E out \in {"ok", "swallowed", "raised"} :
         wk' = [wk EXCEPT ![w] =
                  CASE out = "ok" ->
                         Ran([@ EXCEPT
                                !.image = Image(wk[w].cycle, "ai",
                                               wk[w].stock_data),
                                !.synth = out],
                             "generate", "queue_image")
                    [] out = "swallowed" ->
                         Ran([@ EXCEPT
                                !.image = Image(wk[w].cycle, "placeholder",
                                               NoData),
                                !.synth = out],
                             "generate", "queue_image")
                    [] OTHER ->
                         Ran([@ EXCEPT !.synth = out],
                             "generate", synthesis_failed)]
    /\ UNCHANGED <<seqVars, no_ai, log, now, last_attempt, is_updating, update_thread,
                   diffusion_enabled, last_data, overlay_data, sm, ticks, rl,
                   last_update_time, cycles, applyPub, applyAdopted, calls>>

\* if self.surface_manager: self.surface_manager.queue_background_update(image)
WQueueImage(w) ==
    /\ wk[w].pc = "queue_image"
    /\ ~Exited
    /\ Publish(wk[w].image)
    /\ wk' = [wk EXCEPT ![w] = Ran(@, "queue_image", after_publish("queue_image"))]
    /\ UNCHANGED <<seqVars, no_ai, now, last_attempt, is_updating, update_thread,
                   diffusion_enabled, last_data, overlay_data, ticks, rl,
                   last_update_time, cycles, applyAdopted, calls>>

\* except Exception: "Fall back to using the chart directly":
\* self.surface_manager.queue_background_update(Image.fromarray(chart_array))
WFallback(w) ==
    /\ wk[w].pc = "fallback"
    /\ ~Exited
    /\ Publish(wk[w].chart)
    /\ wk' = [wk EXCEPT ![w] = Ran(@, "fallback", after_publish("fallback"))]
    /\ UNCHANGED <<seqVars, no_ai, now, last_attempt, is_updating, update_thread,
                   diffusion_enabled, last_data, overlay_data, ticks, rl,
                   last_update_time, cycles, applyAdopted, calls>>

\* else: "Use chart directly if AI is disabled":
\* self.surface_manager.queue_background_update(Image.fromarray(chart_array))
WQueueChart(w) ==
    /\ wk[w].pc = "queue_chart"
    /\ ~Exited
    /\ Publish(wk[w].chart)
    /\ wk' = [wk EXCEPT ![w] = Ran(@, "queue_chart", after_publish("queue_chart"))]
    /\ UNCHANGED <<seqVars, no_ai, now, last_attempt, is_updating, update_thread,
                   diffusion_enabled, last_data, overlay_data, ticks, rl,
                   last_update_time, cycles, applyAdopted, calls>>

\* finally: "with self.lock:" waits until neither the render loop nor
\* another worker holds the lock
WFinallyAcquire(w) ==
    /\ wk[w].pc = "finally"
    /\ ~Exited
    /\ rl.pc # "ub_locked"
    /\ \A v \in Workers : ~holds_lock(wk[v].pc)
    /\ wk' = [wk EXCEPT ![w].pc = "finally_locked"]
    /\ UNCHANGED <<seqVars, no_ai, log, now, last_attempt, is_updating,
                   update_thread, diffusion_enabled, last_data, overlay_data,
                   sm, ticks, rl, last_update_time, cycles, applyPub,
                   applyAdopted, calls>>

\* finally: with self.lock: self.is_updating = False; self.update_thread = None
WFinally(w) ==
    /\ wk[w].pc = "finally_locked"
    /\ ~Exited
    /\ is_updating' = FALSE
    /\ update_thread' = finally_handle(update_thread)
    /\ wk' = [wk EXCEPT ![w] = IdleWorker]
    /\ UNCHANGED <<seqVars, no_ai, log, now, last_attempt, diffusion_enabled, last_data,
                   overlay_data, sm, ticks, rl, last_update_time, cycles,
                   applyPub, applyAdopted, calls>>

\* one step of the render loop of stockvision.py
RenderLoop ==
    \/ UBTime \/ UBAcquire \/ UBLock \/ KeyR \/ Quit \/ EventsDone
    \/ ShouldUpdate
    \/ ApplyCheck \/ ApplyUpdate \/ ApplyClear \/ Frame

\* one step of the thread running _do_update in slot w
Worker(w) ==
    \/ WFetch(w) \/ WRender(w) \/ WOverlay(w) \/ WPrompt(w) \/ WGenerate(w)
    \/ WQueueImage(w) \/ WFallback(w) \/ WQueueChart(w)
    \/ WFinallyAcquire(w) \/ WFinally(w)

Next ==
    \/ Tick
    \/ UBTime \/ UBAcquire \/ UBLock \/ KeyR \/ Quit \/ EventsDone
    \/ ShouldUpdate
    \/ ApplyCheck \/ ApplyUpdate \/ ApplyClear \/ Frame
    \/ \E w \in Workers : WFetch(w)
    \/ \E w \in Workers : WRender(w)
    \/ \E w \in Workers : WOverlay(w)
    \/ \E w \in Workers : WPrompt(w)
    \/ \E w \in Workers : WGenerate(w)
    \/ \E w \in Workers : WQueueImage(w)
    \/ \E w \in Workers : WFallback(w)
    \/ \E w \in Workers : WQueueChart(w)
    \/ \E w \in Workers : WFinallyAcquire(w)
    \/ \E w \in Workers : WFinally(w)

Spec == Init /\ [][Next]_vars

\* stockvision.py in a run in which the user never presses R
NextPeriodic ==
    \/ Tick
    \/ UBTime \/ UBAcquire \/ UBLock \/ Quit \/ EventsDone \/ ShouldUpdate
    \/ ApplyCheck \/ ApplyUpdate \/ ApplyClear \/ Frame
    \/ \E w \in Workers : Worker(w)

PeriodicSpec == Init /\ [][NextPeriodic]_vars

\* ------------------------------------- SurfaceManager, one sequential caller
\* the images the sequential caller queues
TestImages == {Image(c, "ai", c) : c \in Cycles}

\* a SurfaceManager after its constructor, under any configuration
InitSurface ==
    /\ InitCommon
    /\ diffusion_enabled = TRUE
    /\ no_ai = FALSE
    /\ ticks \in 1..MaxTicks
    /\ rl = [pc |-> "caller", current_time |-> 0, ub_ret |-> "caller",
             forced |-> FALSE, running |-> TRUE]

\* surface_manager.queue_background_update(image_data)
SQueue ==
    /\ Len(unread) < MaxUnread
    /\ \E image_data \in TestImages :
         /\ sm' = queue_background_update(sm, image_data)
         /\ unread' = Append(unread, image_data)
    /\ op' = [name |-> "queue", flip |-> ~op.flip, taken |-> 0,
              first |-> NoImage, mid |-> FALSE, frame |-> op.frame]
    /\ UNCHANGED <<no_ai, log, now, last_attempt, is_updating, update_thread,
                   diffusion_enabled, last_data, overlay_data, ticks, rl, wk,
                   last_update_time, cycles, applyPub, applyAdopted, calls>>

\* surface_manager.apply_pending_updates()
SApply ==
    /\ sm' = apply_pending_updates(sm)
    /\ calls' = IF Truthy(sm.pending_background) THEN 0 ELSE calls
    /\ unread' = <<>>
    /\ op' = [name |-> "apply", flip |-> ~op.flip, taken |-> Len(unread),
              first |-> IF unread = <<>> THEN NoImage ELSE unread[1],
              mid |-> /\ Truthy(sm.pending_background)
                      /\ FloatLess(FloatZero, sm.transition_progress)
                      /\ FloatLess(sm.transition_progress, FloatOne),
              frame |-> op.frame]
    /\ UNCHANGED <<no_ai, log, now, last_attempt, is_updating, update_thread,
                   diffusion_enabled, last_data, overlay_data, ticks, rl, wk,
                   last_update_time, cycles, applyPub, applyAdopted>>

\* surface_manager.get_display_background()
SFrame ==
    /\ sm' = get_display_background(sm, ticks)
    /\ calls' = IF sm'.transition_progress # sm.transition_progress
                THEN calls + 1 ELSE calls
    /\ op' = [name |-> "frame", flip |-> ~op.flip, taken |-> 0,
              first |-> NoImage, mid |-> FALSE, frame |-> returned_frame(sm)]
    /\ UNCHANGED <<no_ai, log, now, last_attempt, is_updating, update_thread,
                   diffusion_enabled, last_data, overlay_data, ticks, rl, wk,
                   last_update_time, cycles, applyPub, applyAdopted, unread>>

NextSurface == SQueue \/ SApply \/ SFrame

SurfaceSpec == InitSurface /\ [][NextSurface]_vars

\* ------------------------------------------------------------------ main.py
\* main.py: should_update = not is_updating and
\*          (current_time - last_update_time) >= UPDATE_INTERVAL
main_should_update(current_time, updating, last) ==
    ~updating /\ (current_time - last) >= UPDATE_INTERVAL

\* main.py main(), up to "Initial update"
InitMain ==
    /\ InitCommon
    /\ diffusion_enabled = TRUE
    /\ no_ai = FALSE
    /\ ticks = LoopTicks
    /\ rl = [pc |-> "m_initial", current_time |-> 0, ub_ret |-> "m_events",
             forced |-> FALSE, running |-> TRUE]

\* update_thread = threading.Thread(target=update_visualization); start()
MSpawn ==
    /\ cycles < MaxCycles
    /\ \E w \in Workers :
         /\ wk[w].pc = "idle"
         /\ \A v \in Workers : wk[v].pc = "idle" => w <= v
         /\ wk' = [wk EXCEPT ![w] = [IdleWorker EXCEPT !.pc = "m_flag",
                                                       !.cycle = cycles + 1]]
    /\ cycles' = cycles + 1

\* "Initial update"
MInitial ==
    /\ rl.pc = "m_initial"
    /\ MSpawn
    /\ rl' = [rl EXCEPT !.pc = "m_events"]
    /\ UNCHANGED <<seqVars, no_ai, log, now, last_attempt, is_updating, update_thread,
                   diffusion_enabled, last_data, overlay_data, sm, ticks,
                   last_update_time, applyPub, applyAdopted, calls>>

\* pygame.K_r: if not is_updating: start a thread
MKeyR ==
    /\ rl.pc = "m_events"
    /\ IF ~is_updating THEN MSpawn ELSE UNCHANGED <<wk, cycles>>
    /\ rl' = [rl EXCEPT !.forced = TRUE]
    /\ UNCHANGED <<seqVars, no_ai, log, now, last_attempt, is_updating, update_thread,
                   diffusion_enabled, last_data, overlay_data, sm, ticks,
                   last_update_time, applyPub, applyAdopted, calls>>

\* the event queue is drained
MEventsDone ==
    /\ rl.pc = "m_events"
    /\ rl' = [rl EXCEPT !.pc = "m_check"]
    /\ UNCHANGED <<seqVars, no_ai, log, now, last_attempt, is_updating, update_thread,
                   diffusion_enabled, last_data, overlay_data, sm, ticks, wk,
                   last_update_time, cycles, applyPub, applyAdopted, calls>>

\* "Check if it's time for an update"
MCheck ==
    /\ rl.pc = "m_check"
    /\ IF main_should_update(now, is_updating, last_update_time)
       THEN /\ last_update_time' = now
            /\ MSpawn
       ELSE UNCHANGED <<last_update_time, wk, cycles>>
    /\ rl' = [rl EXCEPT !.pc = "m_frame", !.current_time = now]
    /\ UNCHANGED <<seqVars, no_ai, log, now, last_attempt, is_updating, update_thread,
                   diffusion_enabled, last_data, overlay_data, sm, ticks,
                   applyPub, applyAdopted, calls>>

\* bg_surface = surface_manager.get_display_background(), the drawing and
\* clock.tick
MFrame ==
    /\ rl.pc = "m_frame"
    /\ sm' = get_display_background(sm, ticks)
    /\ calls' = IF sm'.transition_progress # sm.transition_progress
                THEN calls + 1 ELSE calls
    /\ rl' = [rl EXCEPT !.pc = "m_events", !.forced = FALSE]
    /\ UNCHANGED <<seqVars, no_ai, log, now, last_attempt, is_updating, update_thread,
                   diffusion_enabled, last_data, overlay_data, ticks, wk,
                   last_update_time, cycles, applyPub, applyAdopted>>

\* update_visualization: with update_lock: is_updating = True
MWFlag(w) ==
    /\ wk[w].pc = "m_flag"
    /\ is_updating' = TRUE
    /\ wk' = [wk EXCEPT ![w].pc = "m_fetch"]
    /\ UNCHANGED <<seqVars, no_ai, log, now, last_attempt, update_thread,
                   diffusion_enabled, last_data, overlay_data, sm, ticks, rl,
                   last_update_time, cycles, applyPub, applyAdopted, calls>>

\* stock_data = stock_fetcher.fetch_data()
MWFetch(w) ==
    /\ wk[w].pc = "m_fetch"
    /\ \E fresh \in {NoData, wk[w].cycle} :
         LET r == fetch_data(last_data, fresh)
         IN /\ last_data' = r.last_data
            /\ wk' = [wk EXCEPT ![w] =
                        Ran([@ EXCEPT
                               !.stock_data = r.result,
                               !.fetch = IF fresh # NoData THEN "fresh"
                                         ELSE IF last_data # NoData
                                              THEN "cached" ELSE "empty"],
                            "fetch",
                            IF r.result # NoData THEN "m_render"
                            ELSE "m_finally")]
    /\ UNCHANGED <<seqVars, no_ai, log, now, last_attempt, is_updating, update_thread,
                   diffusion_enabled, overlay_data, sm, ticks, rl,
                   last_update_time, cycles, applyPub, applyAdopted, calls>>

\* chart_surface = chart_renderer.render_chart(stock_data)
MWRender(w) ==
    /\ wk[w].pc = "m_render"
    /\ \E ok \in BOOLEAN :
         wk' = [wk EXCEPT ![w] =
                  IF ok
                  THEN Ran([@ EXCEPT
                              !.chart = Image(wk[w].cycle, "chart",
                                              wk[w].stock_data),
                              !.render = "ok"],
                           "render", "m_prompt")
                  ELSE Ran([@ EXCEPT !.render = "raised"],
                           "render", "m_finally")]
    /\ UNCHANGED <<seqVars, no_ai, log, now, last_attempt, is_updating, update_thread,
                   diffusion_enabled, last_data, overlay_data, sm, ticks, rl,
                   last_update_time, cycles, applyPub, applyAdopted, calls>>

\* prompt = prompt_generator.generate_prompt(stock_data)
MWPrompt(w) ==
    /\ wk[w].pc = "m_prompt"
    /\ \E ok \in BOOLEAN :
         wk' = [wk EXCEPT ![w] =
                  IF ok
                  THEN Ran(@, "prompt", "m_generate")
                  ELSE Ran([@ EXCEPT !.synth = "raised"],
                           "prompt", "m_finally")]
    /\ UNCHANGED <<seqVars, no_ai, log, now, last_attempt, is_updating, update_thread,
                   diffusion_enabled, last_data, overlay_data, sm, ticks, rl,
                   last_update_time, cycles, applyPub, applyAdopted, calls>>

\* image, seed = diffusion_pipeline.generate(chart_surface, prompt):
\* DiffusionPipeline.generate returns the image or re-raises
MWGenerate(w) ==
    /\ wk[w].pc = "m_generate"
    /\ \E ok \in BOOLEAN :
         wk' = [wk EXCEPT ![w] =
                  IF ok
                  THEN Ran([@ EXCEPT
                              !.image = Image(wk[w].cycle, "ai",
                                              wk[w].stock_data),
                              !.synth = "ok"],
                           "generate", "m_save")
                  ELSE Ran([@ EXCEPT !.synth = "raised"],
                           "generate", "m_finally")]
    /\ UNCHANGED <<seqVars, no_ai, log, now, last_attempt, is_updating, update_thread,
                   diffusion_enabled, last_data, overlay_data, sm, ticks, rl,
                   last_update_time, cycles, applyPub, applyAdopted, calls>>

\* surface_manager.update_background(image), on the worker thread: the
\* statement that saves the previous background
MWSave(w) ==
    /\ wk[w].pc = "m_save"
    /\ sm' = save_previous(sm)
    /\ calls' = IF Truthy(sm.background_surface) THEN 0 ELSE calls
    /\ wk' = [wk EXCEPT ![w] = Ran(@, "update_background", "m_set")]
    /\ UNCHANGED <<seqVars, no_ai, log, now, last_attempt, is_updating, update_thread,
                   diffusion_enabled, last_data, overlay_data, ticks, rl,
                   last_update_time, cycles, applyPub, applyAdopted>>

\* surface_manager.update_background(image), on the worker thread: the
\* conversion and the assignment of background_surface
MWSet(w) ==
    /\ wk[w].pc = "m_set"
    /\ sm' = [sm EXCEPT !.background_surface = make_surface(wk[w].image)]
    /\ wk' = [wk EXCEPT ![w].pc = "m_overlay"]
    /\ UNCHANGED <<seqVars, no_ai, log, now, last_attempt, is_updating, update_thread,
                   diffusion_enabled, last_data, overlay_data, ticks, rl,
                   last_update_time, cycles, applyPub, applyAdopted, calls>>

\* stock_overlay.update_stock_info(stock_data)
MWOverlay(w) ==
    /\ wk[w].pc = "m_overlay"
    /\ overlay_data' = wk[w].stock_data
    /\ wk' = [wk EXCEPT ![w] = Ran(@, "overlay", "m_finally")]
    /\ UNCHANGED <<seqVars, no_ai, log, now, last_attempt, is_updating, update_thread,
                   diffusion_enabled, last_data, sm, ticks, rl,
                   last_update_time, cycles, applyPub, applyAdopted, calls>>

\* finally: with update_lock: is_updating = False
MWFinally(w) ==
    /\ wk[w].pc = "m_finally"
    /\ is_updating' = FALSE
    /\ wk' = [wk EXCEPT ![w] = IdleWorker]
    /\ UNCHANGED <<seqVars, no_ai, log, now, last_attempt, update_thread,
                   diffusion_enabled, last_data, overlay_data, sm, ticks, rl,
                   last_update_time, cycles, applyPub, applyAdopted, calls>>

NextMain ==
    \/ Tick
    \/ MInitial \/ MKeyR \/ MEventsDone \/ MCheck \/ MFrame
    \/ \E w \in Workers : MWFlag(w)
    \/ \E w \in Workers : MWFetch(w)
    \/ \E w \in Workers : MWRender(w)
    \/ \E w \in Workers : MWPrompt(w)
    \/ \E w \in Workers : MWGenerate(w)
    \/ \E w \in Workers : MWSave(w)
    \/ \E w \in Workers : MWSet(w)
    \/ \E w \in Workers : MWOverlay(w)
    \/ \E w \in Workers : MWFinally(w)

MainSpec == InitMain /\ [][NextMain]_vars

\* ------------------------------------------------------------ main_fixed.py
\* main_fixed.py runs the pipeline in the render loop itself, one stage per
\* tick.  update_stage is the position of worker slot 1, whose record holds
\* the "variables for staged update process"; diffusion_enabled tells whether
\* prompt_generator and diffusion_pipeline exist

\* main_fixed.py: not is_updating and
\*                (current_time - last_update_time) >= UPDATE_INTERVAL
fixed_should_update(current_time, updating, last) ==
    ~updating /\ (current_time - last) >= UPDATE_INTERVAL

\* a fetch stage that is run again when it got no snapshot
fixed_after_fetch_retry(stock_data) ==
    IF stock_data # NoData THEN "render_chart" ELSE "fetch_data"

\* main_fixed.py: update_stage = "render_chart" if stock_data else "done"
fixed_after_fetch(stock_data) ==
    IF stock_data # NoData THEN "render_chart" ELSE "done"

\* main_fixed.py: if args.no_ai: ... update_stage = "done"
\*                else: update_stage = "generate_prompt"
fixed_after_render(disabled) ==
    IF disabled THEN "done" ELSE "generate_prompt"

\* main_fixed.py: is_updating = True; update_stage = "fetch_data"
StartStaged ==
    /\ cycles < MaxCycles
    /\ is_updating' = TRUE
    /\ wk' = [wk EXCEPT ![1] = [IdleWorker EXCEPT !.pc = "fetch_data",
                                                  !.cycle = cycles + 1]]
    /\ cycles' = cycles + 1

\* main_fixed.py main(), up to "running = True"
InitFixed ==
    /\ InitCommon
    /\ no_ai \in BOOLEAN
    /\ diffusion_enabled = ~no_ai
    /\ ticks = LoopTicks
    /\ rl = [pc |-> "f_events", current_time |-> 0, ub_ret |-> "f_events",
             forced |-> FALSE, running |-> TRUE]

\* pygame.QUIT or pygame.K_ESCAPE: running = False
FQuit ==
    /\ rl.pc = "f_events"
    /\ rl.running
    /\ rl' = [rl EXCEPT !.running = FALSE]
    /\ UNCHANGED <<seqVars, no_ai, log, now, last_attempt, is_updating,
                   update_thread, diffusion_enabled, last_data, overlay_data,
                   sm, ticks, wk, last_update_time, cycles, applyPub,
                   applyAdopted, calls>>

\* pygame.K_r: if not is_updating: is_updating = True;
\* update_stage = "fetch_data"; last_update_time = time.time()
FKeyR ==
    /\ rl.pc = "f_events"
    /\ rl' = [rl EXCEPT !.forced = TRUE]
    /\ IF ~is_updating
       THEN StartStaged /\ last_update_time' = now
       ELSE UNCHANGED <<is_updating, wk, cycles, last_update_time>>
    /\ UNCHANGED <<seqVars, no_ai, log, now, last_attempt, update_thread,
                   diffusion_enabled, last_data, overlay_data, sm, ticks,
                   applyPub, applyAdopted, calls>>

\* pygame.K_n and not is_updating: args.no_ai = not args.no_ai, and the AI
\* components are created when they do not exist yet
FKeyN ==
    /\ rl.pc = "f_events"
    /\ ~is_updating
    /\ no_ai' = ~no_ai
    /\ diffusion_enabled' = (diffusion_enabled \/ no_ai)
    /\ UNCHANGED <<seqVars, log, now, last_attempt, is_updating,
                   update_thread, last_data, overlay_data, sm, ticks, rl, wk,
                   last_update_time, cycles, applyPub, applyAdopted, calls>>

\* the event queue is drained
FEventsDone ==
    /\ rl.pc = "f_events"
    /\ rl' = [rl EXCEPT !.pc = "f_check"]
    /\ UNCHANGED <<seqVars, no_ai, log, now, last_attempt, is_updating,
                   update_thread, diffusion_enabled, last_data, overlay_data,
                   sm, ticks, wk, last_update_time, cycles, applyPub,
                   applyAdopted, calls>>

\* current_time = time.time(); "Check if it's time for an update"; then
\* "if is_updating:" selects the staged update or the rendering
FCheck ==
    /\ rl.pc = "f_check"
    /\ IF fixed_should_update(now, is_updating, last_update_time)
       THEN StartStaged /\ last_update_time' = now
       ELSE UNCHANGED <<is_updating, wk, cycles, last_update_time>>
    /\ rl' = [rl EXCEPT !.pc = IF is_updating' THEN "f_stage" ELSE "f_frame",
                        !.current_time = now]
    /\ UNCHANGED <<seqVars, no_ai, log, now, last_attempt, update_thread,
                   diffusion_enabled, last_data, overlay_data, sm, ticks,
                   applyPub, applyAdopted, calls>>

\* an except branch that clears is_updating and leaves update_stage alone
StagedRaised_stage_kept(r, st) == Ran(r, st, st)

\* except Exception: is_updating = False; update_stage = "idle"
StagedRaised(r, st) == Ran(r, st, "idle")

\* update_stage == "fetch_data": stock_data = stock_fetcher.fetch_data()
FFetch ==
    /\ rl.pc = "f_stage"
    /\ wk[1].pc = "fetch_data"
    /\ \E fresh \in {NoData, wk[1].cycle} :
         LET r == fetch_data(last_data, fresh)
         IN /\ last_data' = r.last_data
            /\ wk' = [wk EXCEPT ![1] =
                        Ran([@ EXCEPT
                               !.stock_data = r.result,
                               !.fetch = IF fresh # NoData THEN "fresh"
                                         ELSE IF last_data # NoData
                                              THEN "cached" ELSE "empty"],
                            "fetch_data", fixed_after_fetch(r.result))]
    /\ rl' = [rl EXCEPT !.pc = "f_frame"]
    /\ UNCHANGED <<seqVars, no_ai, log, now, last_attempt, is_updating,
                   update_thread, diffusion_enabled, overlay_data, sm, ticks,
                   last_update_time, cycles, applyPub, applyAdopted, calls>>

\* update_stage == "render_chart": chart_renderer.render_chart(stock_data),
\* stock_overlay.update_stock_info(stock_data) and, when args.no_ai,
\* surface_manager.update_background(chart_image).  chart_image is rebuilt
\* from the pygame surface of the chart (surfarray.array3d) and so has three
\* colour planes; render_chart raises when the chart array has not
FRender ==
    /\ rl.pc = "f_stage"
    /\ wk[1].pc = "render_chart"
    /\ \E ok \in BOOLEAN :
         IF ok
         THEN LET chart_image == Image(wk[1].cycle, "chart_rgb",
                                       wk[1].stock_data)
              IN /\ overlay_data' = wk[1].stock_data
                 /\ wk' = [wk EXCEPT ![1] =
                             Ran([@ EXCEPT !.chart = chart_image,
                                           !.render = "ok"],
                                 "render_chart", fixed_after_render(no_ai))]
                 /\ IF no_ai
                    THEN /\ sm' = update_background(sm, chart_image)
                         /\ log' = [log EXCEPT !.adopted =
                                       Append(@, chart_image.cycle)]
                         /\ calls' = 0
                    ELSE UNCHANGED <<sm, log, calls>>
                 /\ UNCHANGED is_updating
         ELSE /\ wk' = [wk EXCEPT ![1] =
                          StagedRaised([@ EXCEPT !.render = "raised"],
                                       "render_chart")]
              /\ is_updating' = FALSE
              /\ UNCHANGED <<overlay_data, sm, log, calls>>
    /\ rl' = [rl EXCEPT !.pc = "f_frame"]
    /\ UNCHANGED <<seqVars, no_ai, now, last_attempt, update_thread,
                   diffusion_enabled, last_data, ticks, last_update_time,
                   cycles, applyPub, applyAdopted>>

\* update_stage == "generate_prompt":
\* prompt = prompt_generator.generate_prompt(stock_data); the name is unbound
\* when the AI components were never created
FPrompt ==
    /\ rl.pc = "f_stage"
    /\ wk[1].pc = "generate_prompt"
    /\ \E ok \in (IF diffusion_enabled THEN BOOLEAN ELSE {FALSE}) :
         IF ok
         THEN /\ wk' = [wk EXCEPT ![1] =
                          Ran(@, "generate_prompt", "generate_image")]
              /\ UNCHANGED is_updating
         ELSE /\ wk' = [wk EXCEPT ![1] =
                          StagedRaised([@ EXCEPT !.synth = "raised"],
                                       "generate_prompt")]
              /\ is_updating' = FALSE
    /\ rl' = [rl EXCEPT !.pc = "f_frame"]
    /\ UNCHANGED <<seqVars, no_ai, log, now, last_attempt, update_thread,
                   diffusion_enabled, last_data, overlay_data, sm, ticks,
                   last_update_time, cycles, applyPub, applyAdopted, calls>>

\* update_stage == "generate_image":
\* generated_image, seed = diffusion_pipeline.generate(chart_surface, prompt);
\* surface_manager.update_background(generated_image)
FGenerate ==
    /\ rl.pc = "f_stage"
    /\ wk[1].pc = "generate_image"
    /\ \E out \in {"ok", "swallowed", "raised"} :
         IF out = "raised"
         THEN /\ wk' = [wk EXCEPT ![1] =
                          StagedRaised([@ EXCEPT !.synth = out],
                                       "generate_image")]
              /\ is_updating' = FALSE
              /\ UNCHANGED <<sm, log, calls>>
         ELSE LET generated_image ==
                      IF out = "ok"
                      THEN Image(wk[1].cycle, "ai", wk[1].stock_data)
                      ELSE Image(wk[1].cycle, "placeholder", NoData)
              IN /\ wk' = [wk EXCEPT ![1] =
                             Ran([@ EXCEPT !.image = generated_image,
                                           !.synth = out],
                                 "generate_image", "done")]
                 /\ sm' = update_background(sm, generated_image)
                 /\ log' = [log EXCEPT !.adopted =
                               Append(@, generated_image.cycle)]
                 /\ calls' = 0
                 /\ UNCHANGED is_updating
    /\ rl' = [rl EXCEPT !.pc = "f_frame"]
    /\ UNCHANGED <<seqVars, no_ai, now, last_attempt, update_thread,
                   diffusion_enabled, last_data, overlay_data, ticks,
                   last_update_time, cycles, applyPub, applyAdopted>>

\* update_stage == "done": is_updating = False; update_stage = "idle"
FDone ==
    /\ rl.pc = "f_stage"
    /\ wk[1].pc = "done"
    /\ wk' = [wk EXCEPT ![1] = Ran(@, "done", "idle")]
    /\ is_updating' = FALSE
    /\ rl' = [rl EXCEPT !.pc = "f_frame"]
    /\ UNCHANGED <<seqVars, no_ai, log, now, last_attempt, update_thread,
                   diffusion_enabled, last_data, overlay_data, sm, ticks,
                   last_update_time, cycles, applyPub, applyAdopted, calls>>

\* "Regular rendering", clock.tick, and the test of "while running"
FFrame ==
    /\ rl.pc = "f_frame"
    /\ sm' = get_display_background(sm, ticks)
    /\ calls' = IF sm'.transition_progress # sm.transition_progress
                THEN calls + 1 ELSE calls
    /\ rl' = [rl EXCEPT !.pc = IF rl.running THEN "f_events" ELSE "exited",
                        !.forced = FALSE, !.current_time = 0]
    /\ UNCHANGED <<seqVars, no_ai, log, now, last_attempt, is_updating,
                   update_thread, diffusion_enabled, last_data, overlay_data,
                   ticks, wk, last_update_time, cycles, applyPub,
                   applyAdopted>>

NextFixed ==
    \/ Tick
    \/ FQuit \/ FKeyR \/ FKeyN \/ FEventsDone \/ FCheck
    \/ FFetch \/ FRender \/ FPrompt \/ FGenerate \/ FDone
    \/ FFrame

FixedSpec == InitFixed /\ [][NextFixed]_vars

\* ------------------------------------------------------- main_simplified.py
\* main_simplified.py is the threaded loop of main.py with the switch
\* args.no_ai, which K_n toggles at any time and the worker reads once, after
\* the chart.  diffusion_enabled tells whether prompt_generator and
\* diffusion_pipeline exist: main() creates them only when started without
\* --no-ai, and nothing creates them later

\* main_simplified.py: should_update = not is_updating and
\*                     (current_time - last_update_time) >= UPDATE_INTERVAL
simplified_should_update(current_time, updating, last) ==
    ~updating /\ (current_time - last) >= UPDATE_INTERVAL

\* update_visualization: "if not args.no_ai:" after the overlay update
simplified_after_overlay(disabled) ==
    IF disabled THEN "x_chart" ELSE "x_prompt"

\* main_simplified.py main(), up to "Initial update"
InitSimplified ==
    /\ InitCommon
    /\ no_ai \in BOOLEAN
    /\ diffusion_enabled = ~no_ai
    /\ ticks = LoopTicks
    /\ rl = [pc |-> "x_initial", current_time |-> 0, ub_ret |-> "x_events",
             forced |-> FALSE, running |-> TRUE]

\* update_thread = threading.Thread(target=update_visualization); start()
XSpawn ==
    /\ cycles < MaxCycles
    /\ \E w \in Workers :
         /\ wk[w].pc = "idle"
         /\ \A v \in Workers : wk[v].pc = "idle" => w <= v
         /\ wk' = [wk EXCEPT ![w] = [IdleWorker EXCEPT !.pc = "x_flag",
                                                       !.cycle = cycles + 1]]
    /\ cycles' = cycles + 1

\* "Initial update"
XInitial ==
    /\ rl.pc = "x_initial"
    /\ XSpawn
    /\ rl' = [rl EXCEPT !.pc = "x_events"]
    /\ UNCHANGED <<seqVars, no_ai, log, now, last_attempt, is_updating,
                   update_thread, diffusion_enabled, last_data, overlay_data,
                   sm, ticks, last_update_time, applyPub, applyAdopted,
                   calls>>

\* pygame.QUIT or pygame.K_ESCAPE: running = False
XQuit ==
    /\ rl.pc = "x_events"
    /\ rl.running
    /\ rl' = [rl EXCEPT !.running = FALSE]
    /\ UNCHANGED <<seqVars, no_ai, log, now, last_attempt, is_updating,
                   update_thread, diffusion_enabled, last_data, overlay_data,
                   sm, ticks, wk, last_update_time, cycles, applyPub,
                   applyAdopted, calls>>

\* pygame.K_r: with update_lock: if not is_updating: start a thread
XKeyR ==
    /\ rl.pc = "x_events"
    /\ IF ~is_updating THEN XSpawn ELSE UNCHANGED <<wk, cycles>>
    /\ rl' = [rl EXCEPT !.forced = TRUE]
    /\ UNCHANGED <<seqVars, no_ai, log, now, last_attempt, is_updating,
                   update_thread, diffusion_enabled, last_data, overlay_data,
                   sm, ticks, last_update_time, applyPub, applyAdopted,
                   calls>>

\* pygame.K_n: args.no_ai = not args.no_ai; then the force refresh:
\* with update_lock: if not is_updating: start a thread
XKeyN ==
    /\ rl.pc = "x_events"
    /\ no_ai' = ~no_ai
    /\ IF ~is_updating THEN XSpawn ELSE UNCHANGED <<wk, cycles>>
    /\ rl' = [rl EXCEPT !.forced = TRUE]
    /\ UNCHANGED <<seqVars, log, now, last_attempt, is_updating,
                   update_thread, diffusion_enabled, last_data, overlay_data,
                   sm, ticks, last_update_time, applyPub, applyAdopted,
                   calls>>

\* the event queue is drained
XEventsDone ==
    /\ rl.pc = "x_events"
    /\ rl' = [rl EXCEPT !.pc = "x_check"]
    /\ UNCHANGED <<seqVars, no_ai, log, now, last_attempt, is_updating,
                   update_thread, diffusion_enabled, last_data, overlay_data,
                   sm, ticks, wk, last_update_time, cycles, applyPub,
                   applyAdopted, calls>>

\* "Check if it's time for an update"
XCheck ==
    /\ rl.pc = "x_check"
    /\ IF simplified_should_update(now, is_updating, last_update_time)
       THEN /\ last_update_time' = now
            /\ XSpawn
       ELSE UNCHANGED <<last_update_time, wk, cycles>>
    /\ rl' = [rl EXCEPT !.pc = "x_frame"]
    /\ UNCHANGED <<seqVars, no_ai, log, now, last_attempt, is_updating,
                   update_thread, diffusion_enabled, last_data, overlay_data,
                   sm, ticks, applyPub, applyAdopted, calls>>

\* bg_surface = surface_manager.get_display_background(), the drawing,
\* clock.tick and the test of "while running"
XFrame ==
    /\ rl.pc = "x_frame"
    /\ sm' = get_display_background(sm, ticks)
    /\ calls' = IF sm'.transition_progress # sm.transition_progress
                THEN calls + 1 ELSE calls
    /\ rl' = [rl EXCEPT !.pc = IF rl.running THEN "x_events" ELSE "exited",
                        !.forced = FALSE]
    /\ UNCHANGED <<seqVars, no_ai, log, now, last_attempt, is_updating,
                   update_thread, diffusion_enabled, last_data, overlay_data,
                   ticks, wk, last_update_time, cycles, applyPub,
                   applyAdopted>>

\* update_visualization: with update_lock: is_updating = True
XWFlag(w) ==
    /\ wk[w].pc = "x_flag"
    /\ ~Exited
    /\ is_updating' = TRUE
    /\ wk' = [wk EXCEPT ![w].pc = "x_fetch"]
    /\ UNCHANGED <<seqVars, no_ai, log, now, last_attempt, update_thread,
                   diffusion_enabled, last_data, overlay_data, sm, ticks, rl,
                   last_update_time, cycles, applyPub, applyAdopted, calls>>

\* stock_data = stock_fetcher.fetch_data(); if stock_data:
XWFetch(w) ==
    /\ wk[w].pc = "x_fetch"
    /\ ~Exited
    /\ \E fresh \in {NoData, wk[w].cycle} :
         LET r == fetch_data(last_data, fresh)
         IN /\ last_data' = r.last_data
            /\ wk' = [wk EXCEPT ![w] =
                        Ran([@ EXCEPT
                               !.stock_data = r.result,
                               !.fetch = IF fresh # NoData THEN "fresh"
                                         ELSE IF last_data # NoData
                                              THEN "cached" ELSE "empty"],
                            "fetch",
                            IF r.result # NoData THEN "x_render"
                            ELSE "x_finally")]
    /\ UNCHANGED <<seqVars, no_ai, log, now, last_attempt, is_updating,
                   update_thread, diffusion_enabled, overlay_data, sm, ticks,
                   rl, last_update_time, cycles, applyPub, applyAdopted,
                   calls>>

\* chart_surface = chart_renderer.render_chart(stock_data)
XWRender(w) ==
    /\ wk[w].pc = "x_render"
    /\ ~Exited
    /\ \E ok \in BOOLEAN :
         wk' = [wk EXCEPT ![w] =
                  IF ok
                  THEN Ran([@ EXCEPT
                              !.chart = Image(wk[w].cycle, "chart_rgb",
                                              wk[w].stock_data),
                              !.render = "ok"],
                           "render", "x_overlay")
                  ELSE Ran([@ EXCEPT !.render = "raised"],
                           "render", "x_finally")]
    /\ UNCHANGED <<seqVars, no_ai, log, now, last_attempt, is_updating,
                   update_thread, diffusion_enabled, last_data, overlay_data,
                   sm, ticks, rl, last_update_time, cycles, applyPub,
                   applyAdopted, calls>>

\* stock_overlay.update_stock_info(stock_data); if not args.no_ai:
XWOverlay(w) ==
    /\ wk[w].pc = "x_overlay"
    /\ ~Exited
    /\ overlay_data' = wk[w].stock_data
    /\ wk' = [wk EXCEPT ![w] =
                Ran(@, "overlay", simplified_after_overlay(no_ai))]
    /\ UNCHANGED <<seqVars, no_ai, log, now, last_attempt, is_updating,
                   update_thread, diffusion_enabled, last_data, sm, ticks, rl,
                   last_update_time, cycles, applyPub, applyAdopted, calls>>

\* prompt = prompt_generator.generate_prompt(stock_data): the name
\* prompt_generator is unbound when main() did not create the AI components,
\* and the NameError leaves through "except Exception"
XWPrompt(w) ==
    /\ wk[w].pc = "x_prompt"
    /\ ~Exited
    /\ \E ok \in (IF diffusion_enabled THEN BOOLEAN ELSE {FALSE}) :
         wk' = [wk EXCEPT ![w] =
                  IF ok
                  THEN Ran(@, "prompt", "x_generate")
                  ELSE Ran([@ EXCEPT !.synth = "raised"],
                           "prompt", "x_finally")]
    /\ UNCHANGED <<seqVars, no_ai, log, now, last_attempt, is_updating,
                   update_thread, diffusion_enabled, last_data, overlay_data,
                   sm, ticks, rl, last_update_time, cycles, applyPub,
                   applyAdopted, calls>>

\* image, seed = diffusion_pipeline.generate(chart_surface, prompt), with the
\* outcomes of SimplifiedDiffusionPipeline.generate
XWGenerate(w) ==
    /\ wk[w].pc = "x_generate"
    /\ ~Exited
    /\ \E out \in {"ok", "swallowed", "raised"} :
         wk' = [wk EXCEPT ![w] =
                  CASE out = "ok" ->
                         Ran([@ EXCEPT
                                !.image = Image(wk[w].cycle, "ai",
                                               wk[w].stock_data),
                                !.synth = out],
                             "generate", "x_save")
                    [] out = "swallowed" ->
                         Ran([@ EXCEPT
                                !.image = Image(wk[w].cycle, "placeholder",
                                               NoData),
                                !.synth = out],
                             "generate", "x_save")
                    [] OTHER ->
                         Ran([@ EXCEPT !.synth = out],
                             "generate", "x_finally")]
    /\ UNCHANGED <<seqVars, no_ai, log, now, last_attempt, is_updating,
                   update_thread, diffusion_enabled, last_data, overlay_data,
                   sm, ticks, rl, last_update_time, cycles, applyPub,
                   applyAdopted, calls>>

\* else: "Use chart as background if AI is disabled":
\* chart_image = Image.fromarray(array3d(chart_surface) transposed)
XWChart(w) ==
    /\ wk[w].pc = "x_chart"
    /\ ~Exited
    /\ wk' = [wk EXCEPT ![w] =
                Ran([@ EXCEPT !.image = wk[w].chart], "chart", "x_save")]
    /\ UNCHANGED <<seqVars, no_ai, log, now, last_attempt, is_updating,
                   update_thread, diffusion_enabled, last_data, overlay_data,
                   sm, ticks, rl, last_update_time, cycles, applyPub,
                   applyAdopted, calls>>

\* surface_manager.update_background(...), on the worker thread: the
\* statement that saves the previous background
XWSave(w) ==
    /\ wk[w].pc = "x_save"
    /\ ~Exited
    /\ sm' = save_previous(sm)
    /\ calls' = IF Truthy(sm.background_surface) THEN 0 ELSE calls
    /\ wk' = [wk EXCEPT ![w] = Ran(@, "update_background", "x_set")]
    /\ UNCHANGED <<seqVars, no_ai, log, now, last_attempt, is_updating,
                   update_thread, diffusion_enabled, last_data, overlay_data,
                   ticks, rl, last_update_time, cycles, applyPub,
                   applyAdopted>>

\* surface_manager.update_background(...), on the worker thread: the
\* conversion and the assignment of background_surface
XWSet(w) ==
    /\ wk[w].pc = "x_set"
    /\ ~Exited
    /\ sm' = [sm EXCEPT !.background_surface = make_surface(wk[w].image)]
    /\ log' = [log EXCEPT !.adopted = Append(@, wk[w].image.cycle)]
    /\ wk' = [wk EXCEPT ![w].pc = "x_finally"]
    /\ UNCHANGED <<seqVars, no_ai, now, last_attempt, is_updating,
                   update_thread, diffusion_enabled, last_data, overlay_data,
                   ticks, rl, last_update_time, cycles, applyPub,
                   applyAdopted, calls>>

\* finally: with update_lock: is_updating = False
XWFinally(w) ==
    /\ wk[w].pc = "x_finally"
    /\ ~Exited
    /\ is_updating' = FALSE
    /\ wk' = [wk EXCEPT ![w] = IdleWorker]
    /\ UNCHANGED <<seqVars, no_ai, log, now, last_attempt, update_thread,
                   diffusion_enabled, last_data, overlay_data, sm, ticks, rl,
                   last_update_time, cycles, applyPub, applyAdopted, calls>>

NextSimplified ==
    \/ Tick
    \/ XInitial \/ XQuit \/ XKeyR \/ XKeyN \/ XEventsDone \/ XCheck
    \/ XFrame
    \/ \E w \in Workers : XWFlag(w)
    \/ \E w \in Workers : XWFetch(w)
    \/ \E w \in Workers : XWRender(w)
    \/ \E w \in Workers : XWOverlay(w)
    \/ \E w \in Workers : XWPrompt(w)
    \/ \E w \in Workers : XWGenerate(w)
    \/ \E w \in Workers : XWChart(w)
    \/ \E w \in Workers : XWSave(w)
    \/ \E w \in Workers : XWSet(w)
    \/ \E w \in Workers : XWFinally(w)

SimplifiedSpec == InitSimplified /\ [][NextSimplified]_vars

\* ================================================================= claims
Running == {w \in Workers : wk[w].pc # "idle"}

QueueStages == {"queue_image", "fallback", "queue_chart"}

\* C1: single-flight in stockvision.py: at most one _do_update cycle runs at
\* any time, and is_updating stays True from the start of a worker until its
\* finally block, so update_background starts no second worker meanwhile.
C1_SingleFlight ==
    /\ Cardinality(Running) <= 1
    /\ Running # {} => is_updating /\ update_thread \in Running

\* update_background is called, and the interval has elapsed, while a cycle
\* is running
C1_Witness ==
    /\ rl.pc = "ub_lock"
    /\ rl.current_time - last_attempt >= UPDATE_INTERVAL
    /\ \E w \in Workers : wk[w].pc \in {"render", "generate", "finally"}

\* C2: an image stored into the mailbox while apply_pending_updates runs is
\* never lost: when the call returns the image is the one the call adopted
\* or it is still pending.
C2_ReadAndClearAtomic ==
    [][(rl.pc = "apply_clear" /\ rl'.pc = "frame" /\ Truthy(applyPub))
         => (applyAdopted = applyPub \/ sm'.pending_background = applyPub)]_vars

\* C4: a cycle whose synthesis failed stores nothing into the mailbox, neither
\* the chart nor a placeholder, and the background shown while synthesis is
\* enabled only ever changes to a synthesized image.
C4_AbortOnSynthesisFailure ==
    [][/\ \A w \in Workers :
            (wk[w].synth \in {"swallowed", "raised"} /\ wk'[w] # wk[w])
              => sm'.pending_background = sm.pending_background
       /\ (diffusion_enabled
            /\ sm'.background_surface # sm.background_surface)
              => sm'.background_surface.kind = "ai"]_vars

\* C5: a force-refresh handled while a cycle is in flight starts no cycle,
\* leaves the running cycle alone and leaves last_attempt unchanged.
C5_ForcedNoOpWhileBusy ==
    [][(rl.pc = "events" /\ ~rl.forced /\ rl'.forced /\ is_updating)
         => /\ last_attempt' = last_attempt
            /\ wk' = wk
            /\ cycles' = cycles
            /\ is_updating']_vars

\* C6: when the render loop evaluates should_update(), it is true exactly
\* when no cycle is in flight and now - last_attempt >= UPDATE_INTERVAL; in
\* particular it is never true while is_updating is True.
C6_PeriodicGating ==
    rl.pc = "should_update"
      => (should_update(now, last_attempt)
            <=> (~is_updating /\ now - last_attempt >= UPDATE_INTERVAL))

\* C8: when the fetch fails and StockFetcher has no cached snapshot, the
\* cycle goes straight to its finally block: no later stage runs, no step of
\* the cycle changes the SurfaceManager (the mailbox included), and the
\* finally block sets is_updating to False.
C8_AbortOnEmptyCache ==
    [][\A w \in Workers :
         /\ (wk[w].pc = "fetch" /\ wk'[w].fetch = "empty")
              => /\ wk'[w].pc = "finally"
                 /\ wk'[w].stock_data = NoData
                 /\ sm' = sm
         /\ (wk[w].fetch = "empty" /\ wk'[w] # wk[w])
              => /\ wk[w].stages = {"fetch"}
                 /\ sm' = sm
                 /\ IF wk[w].pc = "finally"
                    THEN wk'[w].pc = "finally_locked"
                    ELSE /\ wk[w].pc = "finally_locked"
                         /\ wk'[w].pc = "idle"
                         /\ ~is_updating']_vars

\* a cycle is in its finally block after a failed fetch with an empty cache
C8_Witness ==
    \E w \in Workers :
        /\ wk[w].fetch = "empty"
        /\ wk[w].pc = "finally"
        /\ last_data = NoData
        /\ is_updating

C3_LastWriteWins ==
    [][(op'.name = "apply" /\ op' # op)
         => IF unread # <<>>
            THEN /\ sm'.background_surface =
                      make_surface(unread[Len(unread)])
                 /\ sm'.pending_background = NoImage
            ELSE sm' = sm /\ sm.pending_background = NoImage]_vars

\* an apply has just adopted the second of two different queued images
C3_Witness ==
    /\ op.name = "apply"
    /\ op.taken = 2
    /\ Truthy(op.first)
    /\ sm.background_surface # make_surface(op.first)
    /\ Truthy(sm.background_surface)

\* the step is a get_display_background call during or after a crossfade
CrossfadeCall ==
    /\ op'.name = "frame"
    /\ op' # op
    /\ Truthy(sm.background_surface)
    /\ Truthy(sm.previous_background)

\* the progress of the crossfade rises strictly and is clamped at 1.0, where
\* it stays
CrossfadeRises ==
    IF FloatLess(sm.transition_progress, FloatOne)
    THEN /\ FloatLess(sm.transition_progress, sm'.transition_progress)
         /\ ~FloatLess(FloatOne, sm'.transition_progress)
         /\ calls' = calls + 1
    ELSE /\ sm'.transition_progress = FloatOne
         /\ sm.transition_progress = FloatOne
         /\ calls' = calls

\* C7 as stated: after an adoption has reset transition_progress to 0, each
\* get_display_background call strictly increases it until it is clamped at
\* 1, where it stays, and 1 is reached at call number fps*transition_duration
\* exactly.
C7_ExactCount ==
    [][CrossfadeCall
         => /\ CrossfadeRises
            /\ (sm'.transition_progress = FloatOne <=> calls' >= ticks)]_vars

\* C7, amended: ... and 1 is reached at call number n or n + 1, never
\* earlier, n being the whole number fps*transition_duration (the sum of n
\* rounded floats 1.0/n can fall short of 1.0).
C7_CrossfadeMonotonic ==
    [][CrossfadeCall
         => /\ CrossfadeRises
            /\ calls' < ticks => sm'.transition_progress # FloatOne
            /\ calls' > ticks => sm'.transition_progress = FloatOne
            /\ calls' <= ticks + 1]_vars

\* a crossfade has needed one call more than fps*transition_duration
C7_Witness ==
    /\ Truthy(sm.previous_background)
    /\ sm.transition_progress = FloatOne
    /\ op.name = "frame"
    /\ ticks > 1
    /\ calls = ticks + 1

\* C10: the worker thread never writes the display state (background_surface,
\* previous_background, transition_progress): no step of a worker changes it.
C10_OwnershipBoundary ==
    [][wk' # wk => Display(sm') = Display(sm)]_vars

\* the positions of a worker inside a collaborator call that may block: the
\* fetch, the chart rendering, the prompt generation, the synthesis
BlockingStages == {"fetch", "render", "prompt", "generate"}

\* C11: while a worker sits inside a blocking stage, for as long as it may,
\* the render loop is never stopped by it: the worker does not hold the lock
\* and the next step of the running render loop is enabled (the drawing step
\* Frame, which waits for nothing, is not evaluated); no newer cycle has been
\* started, is_updating is still True, and neither the background shown nor
\* the mailbox holds anything of the blocked cycle or a later one.
C11_HangNeverStalls ==
    \A w \in Workers :
        wk[w].pc \in BlockingStages
          => /\ ~holds_lock(wk[w].pc)
             /\ (~Exited /\ rl.pc # "frame") => ENABLED RenderLoop
             /\ is_updating
             /\ cycles = wk[w].cycle
             /\ sm.background_surface.cycle < wk[w].cycle
             /\ sm.pending_background.cycle < wk[w].cycle

\* the worker of the second cycle is inside the synthesis while the render
\* loop, having turned a forced refresh down under the lock, draws a frame
\* showing the image of the first cycle
C11_Witness ==
    \E w \in Workers :
        /\ wk[w].pc = "generate"
        /\ wk[w].cycle = 2
        /\ rl.pc = "frame"
        /\ rl.forced
        /\ sm.background_surface.cycle = 1

\* C12: once a force-refresh has been handled on a tick, the render loop of
\* that tick finds should_update() true, calls update_background and takes
\* the lock, and if is_updating is False there (the worker of the previous
\* cycle may have cleared it just before) the call starts a new cycle whose
\* start time it stores, however short the time since the attempt before.
C12_ForcedStartHonored ==
    [][(rl.forced /\ rl' # rl)
         => /\ rl.pc # "frame" => rl'.forced
            /\ rl.pc = "should_update" => rl'.pc = "ub_time"
            /\ rl.pc = "ub_time" => rl'.pc = "ub_lock"
            /\ rl.pc = "ub_lock" => rl'.pc = "ub_locked"
            /\ (rl.pc = "ub_locked" /\ ~is_updating)
                 => /\ is_updating'
                    /\ cycles' = cycles + 1
                    /\ last_attempt' = rl.current_time
                    /\ \E w \in Workers :
                         /\ wk[w].pc = "idle"
                         /\ wk'[w].pc = "fetch"
                         /\ wk'[w].cycle = cycles']_vars

\* a forced refresh has started the second cycle at the very clock reading at
\* which the first cycle was started
C12_Witness ==
    /\ rl.forced
    /\ rl.pc = "apply"
    /\ cycles = 2
    /\ is_updating
    /\ now = StartTime
    /\ last_attempt = StartTime
    /\ \E w \in Workers : wk[w].pc = "fetch" /\ wk[w].cycle = 2

\* the number of steps a worker at position pc has left at most
StepsLeft(pc) ==
    CASE pc = "fetch" -> 8
      [] pc = "render" -> 7
      [] pc = "overlay" -> 6
      [] pc = "prompt" -> 5
      [] pc = "generate" -> 4
      [] pc \in {"queue_image", "fallback", "queue_chart"} -> 3
      [] pc = "finally" -> 2
      [] pc = "finally_locked" -> 1
      [] OTHER -> 0

\* every step of a running worker brings it nearer to its end
WorkerAdvances ==
    \A w \in Workers :
        (wk[w].pc # "idle" /\ wk'[w] # wk[w])
          => StepsLeft(wk'[w].pc) < StepsLeft(wk[w].pc)

\* a worker ends only by the body of its finally block, which finds
\* is_updating True and sets it to False, and nothing else sets it to False
FinallyOnly ==
    /\ \A w \in Workers :
         (wk[w].pc # "idle" /\ wk'[w].pc = "idle")
           => /\ wk[w].pc = "finally_locked"
              /\ is_updating
              /\ ~is_updating'
    /\ (is_updating /\ ~is_updating')
         => \E w \in Workers :
              /\ wk[w].pc = "finally_locked"
              /\ wk'[w].pc = "idle"

\* a running worker can take a step, every outcome of the collaborator call
\* it is in being a step; or it waits for the lock that the render loop is
\* about to release
NeverStuck ==
    \A w \in Workers :
        (wk[w].pc # "idle" /\ ~Exited)
          => \/ ENABLED Worker(w)
             \/ wk[w].pc = "finally" /\ rl.pc = "ub_locked" /\ ENABLED UBLock

\* C13: every started cycle clears is_updating exactly once, on every exit
\* path (image stored, no data from the fetch, a stage raising); and since a
\* running worker is never stuck and has at most StepsLeft steps before it,
\* is_updating is False again after each start when every collaborator call
\* returns or raises (as long as the process runs).
C13_FinishOnEveryPath ==
    /\ [][FinallyOnly /\ WorkerAdvances]_vars
    /\ []NeverStuck

\* a cycle whose chart rendering raised is in the body of its finally block
C13_Witness ==
    \E w \in Workers :
        /\ wk[w].pc = "finally_locked"
        /\ wk[w].render = "raised"
        /\ is_updating

\* the step is an apply_pending_updates call that finds an image in the
\* mailbox and so calls update_background with it
AdoptionCall ==
    /\ op'.name = "apply"
    /\ op' # op
    /\ Truthy(sm.pending_background)

\* C14 as stated: every call of update_background, the very first one
\* included, sets previous_background to the old background_surface,
\* background_surface to the new image and transition_progress to 0.
C14_AdoptionContract ==
    [][AdoptionCall
         => /\ sm'.previous_background = sm.background_surface
            /\ sm'.background_surface = make_surface(sm.pending_background)
            /\ sm'.transition_progress = FloatZero]_vars

\* C14, amended: every call of update_background sets background_surface to
\* the new image; when a background exists it sets previous_background to
\* the old background_surface and transition_progress to 0; the very first
\* call, when none exists, leaves previous_background None and
\* transition_progress 1.0.
C14_AdoptionGuarded ==
    [][AdoptionCall
         => /\ sm'.background_surface = make_surface(sm.pending_background)
            /\ IF Truthy(sm.background_surface)
               THEN /\ sm'.previous_background = sm.background_surface
                    /\ sm'.transition_progress = FloatZero
               ELSE /\ sm'.previous_background = NoImage
                    /\ sm'.transition_progress = FloatOne
                    /\ sm.previous_background = NoImage
                    /\ sm.transition_progress = FloatOne]_vars

\* the very first adoption has just been made
C14_Witness ==
    /\ op.name = "apply"
    /\ op.taken > 0
    /\ Truthy(sm.background_surface)
    /\ sm.previous_background = NoImage
    /\ sm.transition_progress = FloatOne

\* a crossfade is under way: 0 < transition_progress < 1
MidTransition(s) ==
    /\ Truthy(s.previous_background)
    /\ FloatLess(FloatZero, s.transition_progress)
    /\ FloatLess(s.transition_progress, FloatOne)

\* C15: when update_background is called while 0 < transition_progress < 1,
\* previous_background becomes the old background_surface itself, never the
\* composite that get_display_background returned last, background_surface
\* becomes the new image and the crossfade restarts from progress 0.
C15_AdoptionMidTransition ==
    [][(AdoptionCall /\ MidTransition(sm))
         => /\ sm'.previous_background = sm.background_surface
            /\ sm'.previous_background # op.frame
            /\ sm'.previous_background.kind # "blend"
            /\ sm'.background_surface = make_surface(sm.pending_background)
            /\ sm'.transition_progress = FloatZero]_vars

\* an image has just been adopted in the middle of a crossfade whose last
\* frame was a composite
C15_Witness ==
    /\ op.name = "apply"
    /\ op.mid
    /\ op.frame.kind = "blend"
    /\ sm.transition_progress = FloatZero
    /\ sm.previous_background.cycle = op.frame.cycle
    /\ sm.background_surface # sm.previous_background

\* C16: when the user has disabled image synthesis (stockvision.py --no-ai),
\* no cycle enters the prompt or synthesis stage, and what a cycle stores
\* into the mailbox after rendering the chart is the chart itself.
C16_SynthesisDisabled ==
    no_ai
      => /\ \A w \in Workers :
              /\ wk[w].pc \notin {"prompt", "generate", "queue_image", "fallback"}
              /\ wk[w].synth = "none"
         /\ sm.pending_background.kind \in {"none", "chart"}

\* C17: no failure of a pipeline stage and no failure of the conversion of a
\* queued image into a surface raises in the render-loop thread: the render
\* loop is never ended by an exception.
C17_FailureContainment == rl.pc # "crashed"

\* a is b with some of its elements left out
RECURSIVE IsSubsequence(_, _)
IsSubsequence(a, b) ==
    IF a = <<>> THEN TRUE
    ELSE IF b = <<>> THEN FALSE
    ELSE IF a[1] = b[1] THEN IsSubsequence(Tail(a), Tail(b))
    ELSE IsSubsequence(a, Tail(b))

\* no element occurs twice in a
NoRepeat(a) == \A i, j \in 1..Len(a) : a[i] = a[j] => i = j

\* C18: the images adopted by the display, in the order of their adoption,
\* are a subsequence of the images published, in the order of their
\* publication (each image being published once): the display never adopts
\* an image twice nor one published before an image it has adopted already.
C18_PublishOrder ==
    /\ NoRepeat(log.published)
    /\ IsSubsequence(log.adopted, log.published)

\* two cycles have published and both images have been adopted
C18_Witness ==
    /\ log.published = <<1, 2>>
    /\ log.adopted = <<1, 2>>
    /\ sm.background_surface.cycle = 2
    /\ sm.previous_background.cycle = 1

\* C19: single-flight in main.py: across the initial thread, the force-refresh
\* key presses and the periodic check, at most one update_visualization
\* thread exists at any time.
C19_SingleFlightMain == Cardinality({w \in Workers : wk[w].pc # "idle"}) < 2

\* C20: last_attempt changes only when a cycle is started, and every start of
\* a cycle, initial, periodic or forced, stores the start time into it.
C20_LastAttemptStamping ==
    [][/\ cycles' # cycles => last_attempt' = rl.current_time
       /\ last_attempt' # last_attempt => cycles' = cycles + 1]_vars

\* C21 (the statement of the claim, which the code violates): the overlay's
\* snapshot StockInfoOverlay.stock_data is written by the render loop only,
\* so that no step of a worker thread changes it.  _do_update calls
\* stock_overlay.update_stock_info on the worker thread
C21_OverlayOwnership ==
    [][overlay_data' # overlay_data => wk' = wk]_vars

\* the order of the positions of one tick of the render loop of stockvision.py
TickPos(pc) ==
    CASE pc = "events" -> 0
      [] pc = "should_update" -> 1
      [] pc = "ub_time" -> 2
      [] pc = "ub_lock" -> 3
      [] pc = "ub_locked" -> 4
      [] pc = "apply" -> 5
      [] pc = "apply_update" -> 6
      [] pc = "apply_clear" -> 7
      [] pc = "frame" -> 8
      [] OTHER -> 9

\* once running is False the render loop only moves forward within the tick
\* (further events of the same batch apart), and the frame drawn is followed
\* by the exit
QuitTickAdvances ==
    (~rl.running /\ rl' # rl)
      => /\ ~rl'.running
         /\ \/ TickPos(rl'.pc) > TickPos(rl.pc)
            \/ rl.pc = "events" /\ rl'.pc = "events"
         /\ rl.pc = "frame" => rl'.pc = "exited"

\* after the quit signal the render loop can take its next step (the drawing
\* step Frame, which waits for nothing, is not evaluated), or it waits for
\* the lock while a worker is about to release it; the state in which the
\* bound MaxCycles keeps a cycle from starting is left out
QuitNeverStuck ==
    (/\ ~rl.running
     /\ ~Exited
     /\ rl.pc # "frame"
     /\ ~(/\ rl.pc = "ub_locked"
          /\ cycles = MaxCycles
          /\ update_starts(rl.current_time, is_updating, last_attempt)))
      => \/ ENABLED RenderLoop
         \/ /\ rl.pc = "ub_lock"
            /\ \E w \in Workers : wk[w].pc = "finally_locked" /\ ENABLED WFinally(w)

\* C22: once a quit signal has been handled the render loop finishes the tick
\* it is in, in at most nine further steps none of which can be held up for
\* good, and leaves main(); from then on nothing runs any more, the worker of
\* a cycle still in flight included.
C22_QuitTerminates ==
    /\ [][QuitTickAdvances /\ ~Exited]_vars
    /\ []QuitNeverStuck

\* the program has ended after a quit signal while the worker of a cycle was
\* inside the synthesis
C22_Witness ==
    /\ rl.pc = "exited"
    /\ ~rl.running
    /\ \E w \in Workers : wk[w].pc = "generate"

\* no crossfade is running in the SurfaceManager s
Settled(s) ==
    \/ ~Truthy(s.previous_background)
    \/ ~FloatLess(s.transition_progress, FloatOne)

\* C23: a get_display_background call made when previous_background is None
\* or transition_progress >= 1 returns the current background (None when
\* there is none) and changes none of background_surface,
\* previous_background and transition_progress.
C23_SettledFrame ==
    [][(op'.name = "frame" /\ op' # op /\ Settled(sm))
         => /\ op'.frame = sm.background_surface
            /\ Display(sm') = Display(sm)]_vars

\* a frame was asked for after a crossfade had ended: the previous
\* background is still kept, and the frame returned is the plain background
C23_Witness ==
    /\ op.name = "frame"
    /\ Truthy(sm.previous_background)
    /\ sm.transition_progress = FloatOne
    /\ op.frame = sm.background_surface
    /\ sm.previous_background # sm.background_surface

\* C24: in every state of the SurfaceManager between two calls,
\* 0 <= transition_progress <= 1; transition_progress is 1 whenever
\* previous_background is None; and the opacity int(255 * transition_progress)
\* of the blend lies within 0..255.
C24_ProgressRange ==
    /\ ~FloatLess(sm.transition_progress, FloatZero)
    /\ ~FloatLess(FloatOne, sm.transition_progress)
    /\ ~Truthy(sm.previous_background) => sm.transition_progress = FloatOne
    /\ blend_alpha(sm) \in 0..255

\* a crossfade is under way: the progress lies strictly between 0 and 1 and
\* the opacity strictly between 0 and 255
C24_Witness ==
    /\ op.name = "frame"
    /\ op.frame.kind = "blend"
    /\ Truthy(sm.previous_background)
    /\ FloatLess(FloatZero, sm.transition_progress)
    /\ FloatLess(sm.transition_progress, FloatOne)
    /\ blend_alpha(sm) \in 1..254

\* C25: a cycle stores an image into the mailbox at most once, and the store
\* is its last stage: the worker step that stores has no earlier store of
\* the same cycle behind it and leads to the finally block, which leads to
\* nothing but the clearing of is_updating; no other worker step stores.
C25_OnePublishLast ==
    [][\A w \in Workers :
         wk'[w] # wk[w]
           => /\ wk[w].pc \in QueueStages
                   => /\ wk[w].stages \cap QueueStages = {}
                      /\ wk'[w].pc = "finally"
                      /\ log'.published = Append(log.published, wk[w].cycle)
              /\ wk[w].pc \notin QueueStages
                   => /\ log'.published = log.published
                      /\ sm'.pending_background = sm.pending_background
              /\ wk[w].pc = "finally" => wk'[w].pc = "finally_locked"
              /\ wk[w].pc = "finally_locked"
                   => wk'[w].pc = "idle" /\ ~is_updating']_vars

\* the worker of the second cycle has stored the chart after a failed
\* synthesis, as the one store of its cycle, and is about to clear
\* is_updating
C25_Witness ==
    \E w \in Workers :
        /\ wk[w].pc = "finally_locked"
        /\ wk[w].cycle = 2
        /\ wk[w].stages \cap QueueStages = {"fallback"}
        /\ log.published = <<1, 2>>
        /\ is_updating

Failed(r) == r.fetch = "empty" \/ r.render = "raised"

\* C27: a failed cycle is not retried.  Once a stage has failed the worker
\* runs nothing but its finally block; an idle worker slot is only ever
\* changed by update_background, under the lock, into a new cycle at the
\* fetch stage; last_attempt is the stamp of the latest start unless K_r has
\* zeroed it; and a start made without such a zeroing comes no earlier than
\* UPDATE_INTERVAL after that stamp.
C27_NoAutomaticRetry ==
    [][/\ \A w \in Workers :
            /\ (wk'[w] # wk[w] /\ Failed(wk'[w]))
                 => wk'[w].pc \in {"finally", "finally_locked"}
            /\ (wk[w].pc = "idle" /\ wk'[w] # wk[w])
                 => /\ rl.pc = "ub_locked"
                    /\ cycles' = cycles + 1
                    /\ wk'[w].pc = "fetch"
                    /\ wk'[w].stages = {}
       /\ last_attempt' # last_attempt
            => \/ last_attempt' = 0
               \/ cycles' = cycles + 1 /\ last_attempt' = rl.current_time
       /\ (cycles' # cycles /\ last_attempt # 0)
            => rl.current_time - last_attempt >= UPDATE_INTERVAL]_vars

\* no cycle has stored anything: the first cycle failed; the second cycle was
\* started, without a force-refresh in that tick, one interval or more after
\* the start of the first, and is at its fetch stage
C27_Witness ==
    \E w \in Workers :
        /\ wk[w].pc = "fetch"
        /\ wk[w].cycle = 2
        /\ wk[w].stages = {}
        /\ log.published = <<>>
        /\ ~rl.forced
        /\ last_attempt >= StartTime + UPDATE_INTERVAL

\* the moves of update_stage that the staged update allows, the jump to idle
\* on an exception apart
StagedMoves ==
    {<<"idle", "fetch_data">>, <<"fetch_data", "render_chart">>,
     <<"render_chart", "generate_prompt">>,
     <<"generate_prompt", "generate_image">>, <<"generate_image", "done">>,
     <<"done", "idle">>, <<"fetch_data", "done">>, <<"render_chart", "done">>}

\* C28: in main_fixed.py update_stage only moves along idle -> fetch_data ->
\* render_chart -> generate_prompt -> generate_image -> done -> idle, with
\* the shortcuts fetch_data -> done (no snapshot) and render_chart -> done
\* (synthesis disabled), or to idle from a stage that raised; a tick that
\* finds is_updating set executes exactly one stage, the one update_stage
\* names, and goes on to the frame; and no stage is executed twice within
\* one cycle.
C28_StagedMoves ==
    [][/\ wk'[1].pc # wk[1].pc
            => \/ <<wk[1].pc, wk'[1].pc>> \in StagedMoves
               \/ /\ wk'[1].pc = "idle"
                  /\ "raised" \in {wk'[1].render, wk'[1].synth}
       /\ <<wk[1].pc, wk'[1].pc>> = <<"fetch_data", "done">>
            => wk'[1].stock_data = NoData
       /\ <<wk[1].pc, wk'[1].pc>> = <<"render_chart", "done">> => no_ai
       /\ (rl.pc = "f_check" /\ rl' # rl)
            => rl'.pc = IF is_updating' THEN "f_stage" ELSE "f_frame"
       /\ (rl.pc = "f_stage" /\ rl' # rl)
            => /\ rl'.pc = "f_frame"
               /\ wk[1].pc \notin wk[1].stages
               /\ wk'[1].stages = wk[1].stages \cup {wk[1].pc}
       /\ (rl.pc # "f_stage" /\ wk'[1].stages # wk[1].stages)
            => wk'[1].stages = {} /\ wk'[1].pc = "fetch_data"]_vars

\* a cycle with synthesis has run its five stages, one per tick, and is back
\* at idle
C28_Witness ==
    /\ wk[1].pc = "idle"
    /\ wk[1].stages = {"fetch_data", "render_chart", "generate_prompt",
                       "generate_image", "done"}
    /\ ~is_updating
    /\ rl.pc = "f_frame"

\* C29: a fetch_data call that obtains a fresh snapshot returns it and leaves
\* it in last_data; a call that obtains none leaves last_data unchanged;
\* nothing else changes last_data, which therefore is the result of the most
\* recent successful call; and a call made while last_data holds a snapshot
\* does not return None.
C29_SnapshotCache ==
    [][/\ \A w \in Workers :
            (wk[w].pc = "fetch" /\ wk'[w] # wk[w])
              => /\ wk'[w].fetch = "fresh"
                      => /\ wk'[w].stock_data = wk[w].cycle
                         /\ last_data' = wk'[w].stock_data
                 /\ wk'[w].fetch # "fresh" => last_data' = last_data
                 /\ last_data # NoData => wk'[w].stock_data # NoData
       /\ last_data' # last_data
            => \E w \in Workers :
                 wk[w].pc = "fetch" /\ wk'[w].fetch = "fresh"]_vars

\* the fetch of the second cycle has failed after the fetch of the first had
\* succeeded: the call returned the snapshot of the first cycle, which
\* last_data still holds
C29_Witness ==
    \E w \in Workers :
        /\ wk[w].cycle = 2
        /\ wk[w].pc = "render"
        /\ wk[w].fetch = "cached"
        /\ wk[w].stock_data = 1
        /\ last_data = 1

\* C30: a force-refresh is served, also when the key was pressed while a
\* cycle was in flight.  The key press zeroes last_attempt; the zero stays
\* until a cycle starts; in every tick that finds it should_update() sends
\* the render loop into update_background; and update_background, finding it
\* under the lock with no cycle running, starts a cycle.  So when running
\* cycles end and the render loop keeps ticking, the first tick that takes
\* the lock after the running cycle has ended starts the cycle asked for.
C30_ForceRefreshServed ==
    [][/\ (rl.pc = "events" /\ rl'.forced /\ ~rl.forced) => last_attempt' = 0
       /\ (last_attempt = 0 /\ last_attempt' # 0) => cycles' = cycles + 1
       /\ (rl.pc = "should_update" /\ last_attempt = 0 /\ rl' # rl)
            => rl'.pc = "ub_time"
       /\ (rl.pc = "ub_locked" /\ last_attempt = 0 /\ ~is_updating
             /\ rl' # rl)
            => /\ cycles' = cycles + 1
               /\ is_updating'
               /\ \E w \in Workers :
                    wk'[w].pc = "fetch" /\ wk'[w].cycle = cycles']_vars

\* the second cycle has just been started in a tick without a key press,
\* less than one interval after the start of the first: the key was pressed
\* in an earlier tick, while the first cycle was in flight
C30_Witness ==
    /\ rl.pc = "apply"
    /\ ~rl.forced
    /\ cycles = 2
    /\ is_updating
    /\ last_attempt # 0
    /\ last_attempt - StartTime < UPDATE_INTERVAL
    /\ \E w \in Workers : wk[w].pc = "fetch" /\ wk[w].cycle = 2

\* the render loop is inside the initial update_background() call that
\* main() makes before the loop
AtStartup ==
    rl.pc \in {"ub_time", "ub_lock", "ub_locked"} /\ rl.ub_ret = "events"

\* C31: in a run of stockvision.py without force-refresh events the first
\* cycle is started by the initial update_background() call, before the
\* first tick of the loop; every start stamps last_attempt with its
\* current_time, nothing else writes last_attempt, and every later start has
\* a current_time at least UPDATE_INTERVAL after the stamp of the start
\* before it.
C31_PeriodicSpacing ==
    /\ [][/\ (cycles = 0 /\ rl' # rl /\ ~AtStartup') => cycles' = 1
          /\ cycles' # cycles
               => /\ cycles' = cycles + 1
                  /\ last_attempt' = rl.current_time
                  /\ cycles = 0 => AtStartup
                  /\ cycles > 0
                       => rl.current_time - last_attempt >= UPDATE_INTERVAL
          /\ last_attempt' # last_attempt => cycles' # cycles]_vars
    /\ [](cycles > 0 => last_attempt >= StartTime)

\* the second cycle has been started by the periodic check, one interval
\* after the first, which was started at startup
C31_Witness ==
    /\ cycles = 2
    /\ last_attempt = StartTime + UPDATE_INTERVAL
    /\ rl.pc = "apply"
    /\ \E w \in Workers : wk[w].pc = "fetch" /\ wk[w].cycle = 2

\* C32 (the statement of the claim, which the code violates): in the
\* threaded loop of main.py every frame that advances a crossfade finds
\* background_surface already holding the new image, so that no frame blends
\* the old image with itself and no progress is consumed before the new
\* image is in place.  The worker runs SurfaceManager.update_background
\* itself, and a frame can fall between its two assignments
C32_AdoptionAtomic ==
    [][(/\ rl.pc = "m_frame"
        /\ rl' # rl
        /\ Truthy(sm.previous_background)
        /\ FloatLess(sm.transition_progress, FloatOne))
         => sm.background_surface # sm.previous_background]_vars

\* C33 (the statement of the claim, which the code violates): when the
\* conversion of the queued image fails inside update_background,
\* background_surface, previous_background and transition_progress keep the
\* values they had before the call, and the mailbox is left cleared.  The
\* failing call has saved the previous background and zeroed the progress
\* before the conversion, and the exception skips
\* "self.pending_background = None"
C33_AdoptionAllOrNothing ==
    [][(rl.pc = "apply_update" /\ rl'.pc = "crashed")
         => /\ Display(sm') = Display(sm)
            /\ sm'.pending_background = NoImage]_vars

\* C34: in main_fixed.py is_updating is True exactly when update_stage is
\* not "idle", at the start and at the end of every tick of the render loop
\* and at every position of the tick in between (after an event handler,
\* after the periodic check, after the stage executed).
C34_FlagTracksStage == is_updating <=> wk[1].pc # "idle"

\* a tick has ended in which the render_chart stage raised: update_stage is
\* back at idle and is_updating is False
C34_Witness ==
    /\ rl.pc = "f_events"
    /\ ~rl.forced
    /\ wk[1].cycle = 1
    /\ wk[1].render = "raised"
    /\ wk[1].pc = "idle"
    /\ ~is_updating

\* C35: the synthesis switch is stable within a cycle: args.no_ai does not
\* change while a cycle is in flight that has yet to read it (the staged
\* variant reads it at render_chart, the threaded variant after the overlay
\* update), so the cycle runs with the value it started with
BeforeSwitchRead ==
    {"x_flag", "x_fetch", "x_render", "x_overlay", "fetch_data",
     "render_chart"}

C35_SwitchStableInCycle ==
    [][no_ai' # no_ai => \A w \in Workers : wk[w].pc \notin BeforeSwitchRead]_vars

\* C36: enabling synthesis at run time works: a cycle that reads the switch as
\* enabled and goes on to prompt generation finds the AI components in place,
\* so it can generate and publish instead of aborting
C36_EnableAtRunTime ==
    \A w \in Workers :
        wk[w].pc \in {"x_prompt", "generate_prompt"} => diffusion_enabled

\* C37: the thread handle tracks the flag in stockvision.py: whenever
\* BackgroundUpdater.lock is free, update_thread is set exactly when
\* is_updating is True, and the worker that is about to clear the handle in
\* its finally block is the one the handle names, never a later one
LockFree == rl.pc # "ub_locked" /\ \A w \in Workers : ~holds_lock(wk[w].pc)

C37_HandleTracksFlag ==
    /\ LockFree => ((update_thread # 0) <=> is_updating)
    /\ \A w \in Workers : holds_lock(wk[w].pc) => update_thread = w

C37_Witness ==
    /\ cycles = 2
    /\ LockFree
    /\ update_thread = 0
    /\ ~is_updating
    /\ rl.pc = "apply"
    /\ \A w \in Workers : wk[w].pc = "idle"

====
